---- MODULE Spec2Model ----
(***************************************************************************)
(* jasminesnake: the parse-tree-to-AST listeners of                        *)
(* jasminesnake/ast/parse_tree_listeners.py and the node constructors of   *)
(* jasminesnake/ast/nodes.py, as operators over ANTLR parse trees, and the *)
(* operations that run them as the actions of a state machine.             *)
(*                                                                         *)
(* A parse tree is a record [rule, term, text, kids, line, col]: a rule    *)
(* context has term = FALSE and its children in kids; a terminal node has  *)
(* term = TRUE, its token type in rule, its characters in text (a sequence *)
(* of one-character strings) and its position in line and col.             *)
(* Python values carry a tag so that values of different Python types can  *)
(* be compared: PyNone, PyBool, PyStr, PyFloat, enumeration members.       *)
(***************************************************************************)
EXTENDS Integers, Sequences, FiniteSets, TLC

VARIABLES op, input, args, out, astl, builds

vars == <<op, input, args, out, astl, builds>>

(***************************************************************************)
(* Bounds of the input sets.                                               *)
(***************************************************************************)
MaxSeq == 2
MaxElems == 2
MaxDecls == 2
MaxStmts == 2
MaxNest == 1

(***************************************************************************)
(* Python values.                                                          *)
(***************************************************************************)
PyNone == [py |-> "None"]
PyBool(b) == [py |-> "bool", b |-> b]
PyStr(s) == [py |-> "str", s |-> s]
\* A float: nan, an infinity, or (neg: -) 0.d1d2...dn * 10^exp, the digits
\* d1..dn without leading and closing zeros (none and exp 0: zero).
PyFloat(kind, neg, digits, exp) ==
    [py |-> "float", kind |-> kind, neg |-> neg, digits |-> digits, exp |-> exp]
EnumMember(enum, name, value) == [py |-> "enum", enum |-> enum, name |-> name, value |-> value]

(***************************************************************************)
(* Outcome of a call: a value, nothing assigned, or an exception.          *)
(***************************************************************************)
Ok(v) == [ok |-> TRUE, set |-> TRUE, val |-> v, exc |-> "", msg |-> ""]
Unset == [ok |-> TRUE, set |-> FALSE, val |-> PyNone, exc |-> "", msg |-> ""]
Raise(exc, msg) == [ok |-> FALSE, set |-> FALSE, val |-> PyNone, exc |-> exc, msg |-> msg]

\* Reading a result attribute that only a handler assigns (the classes declare
\* it by annotation alone): AttributeError when no handler assigned it.
ReadAttr(o, attr) ==
    IF ~o.ok THEN o
    ELSE IF o.set THEN o
    ELSE Raise("AttributeError", attr)

\* Sequencing: the exception of o ends the handler, otherwise the handler
\* goes on with the value of o (Then) or with o itself (After).
Then(o, rest(_)) == IF o.ok THEN rest(o.val) ELSE o
After(o, rest(_)) == IF o.ok THEN rest(o) ELSE o

(***************************************************************************)
(* Parse trees (the contract of the generated parser).                     *)
(***************************************************************************)
Tk(type, text) == [rule |-> type, term |-> TRUE, text |-> text, kids |-> <<>>, line |-> 1, col |-> 0]
Cx(rule, kids) == [rule |-> rule, term |-> FALSE, text |-> <<>>, kids |-> kids, line |-> 0, col |-> 0]
NoneCtx == [rule |-> "None", term |-> FALSE, text |-> <<>>, kids |-> <<>>, line |-> 0, col |-> 0]
IsNone(c) == c.rule = "None"

\* The alternatives of the grammar rule singleExpression (each a subclass of
\* SingleExpressionContext).
SingleExpressionRules ==
    { "FunctionExpression", "ClassExpression", "MemberIndexExpression",
      "MemberDotExpression", "ArgumentsExpression", "NewExpression",
      "MetaExpression", "PostIncrementExpression", "PostDecreaseExpression",
      "DeleteExpression", "VoidExpression", "TypeofExpression",
      "PreIncrementExpression", "PreDecreaseExpression", "UnaryPlusExpression",
      "UnaryMinusExpression", "BitNotExpression", "NotExpression",
      "AwaitExpression", "PowerExpression", "MultiplicativeExpression",
      "AdditiveExpression", "CoalesceExpression", "BitShiftExpression",
      "RelationalExpression", "InstanceofExpression", "InExpression",
      "EqualityExpression", "BitAndExpression", "BitXOrExpression",
      "BitOrExpression", "LogicalAndExpression", "LogicalOrExpression",
      "TernaryExpression", "AssignmentExpression",
      "AssignmentOperatorExpression", "ImportExpression",
      "TemplateStringExpression", "YieldExpression", "ThisExpression",
      "IdentifierExpression", "SuperExpression", "LiteralExpression",
      "ArrayLiteralExpression", "ObjectLiteralExpression",
      "ParenthesizedExpression" }

\* ctx.getChild(i)
GetChild(ctx, i) == IF i + 1 <= Len(ctx.kids) THEN ctx.kids[i + 1] ELSE NoneCtx

\* ctx.Tok(): the first terminal child of that token type, or None.
GetToken(ctx, type) ==
    LET idx == { i \in 1..Len(ctx.kids) : ctx.kids[i].term /\ ctx.kids[i].rule = type }
    IN  IF idx = {} THEN NoneCtx
        ELSE ctx.kids[CHOOSE i \in idx : \A j \in idx : i <= j]

\* ctx.rule(): the list of the children that are contexts of the given rules.
GetRules(ctx, rules) ==
    SelectSeq(ctx.kids, LAMBDA k : ~k.term /\ k.rule \in rules)

\* ctx.rule(i) and the accessor of a rule that occurs at most once.
GetRule(ctx, rules, i) ==
    LET l == GetRules(ctx, rules)
    IN  IF i + 1 <= Len(l) THEN l[i + 1] ELSE NoneCtx

RECURSIVE GetText(_)
RECURSIVE GetTextKids(_)
\* ctx.getText(): the characters of the terminals below ctx, in order.
GetText(ctx) == IF ctx.term THEN ctx.text ELSE GetTextKids(ctx.kids)
GetTextKids(ks) ==
    IF ks = <<>> THEN <<>> ELSE GetText(Head(ks)) \o GetTextKids(Tail(ks))

RECURSIVE HasTok(_)
HasTok(t) == IF t.term THEN TRUE ELSE \E i \in 1..Len(t.kids) : HasTok(t.kids[i])

RECURSIVE StartTok(_)
\* ctx.start: the first token of the production.
StartTok(t) ==
    IF t.term THEN t
    ELSE LET idx == { i \in 1..Len(t.kids) : HasTok(t.kids[i]) }
         IN  IF idx = {} THEN NoneCtx
             ELSE StartTok(t.kids[CHOOSE i \in idx : \A j \in idx : i <= j])

RECURSIVE StopTok(_)
\* ctx.stop: the last token of the production.
StopTok(t) ==
    IF t.term THEN t
    ELSE LET idx == { i \in 1..Len(t.kids) : HasTok(t.kids[i]) }
         IN  IF idx = {} THEN NoneCtx
             ELSE StopTok(t.kids[CHOOSE i \in idx : \A j \in idx : i >= j])

(***************************************************************************)
(* Token positions: the tokens of a source line are laid out with one      *)
(* blank between neighbours; the tokens after a hashbang line are on       *)
(* line 2.                                                                 *)
(***************************************************************************)
RECURSIVE Advance(_)
RECURSIVE AdvanceKids(_)
Advance(t) == IF t.term THEN Len(t.text) + 1 ELSE AdvanceKids(t.kids)
AdvanceKids(ks) ==
    IF ks = <<>> THEN 0 ELSE Advance(Head(ks)) + AdvanceKids(Tail(ks))

RECURSIVE Place(_, _, _)
RECURSIVE PlaceKids(_, _, _)
Place(t, line, off) ==
    IF t.term THEN [t EXCEPT !.line = line, !.col = off]
    ELSE [t EXCEPT !.kids = PlaceKids(t.kids, line, off)]
PlaceKids(ks, line, off) ==
    IF ks = <<>> THEN <<>>
    ELSE <<Place(Head(ks), line, off)>>
         \o PlaceKids(Tail(ks), line, off + Advance(Head(ks)))

(***************************************************************************)
(* nodes.py: operator enumerations, Position, SourceLocation, nodes.       *)
(* A node is a record of its class, its attributes under their field names *)
(* and keys, the order of its fields mapping.                              *)
(*                                                                         *)
(* The directory jasminesnake/ast/nodes/ holds an earlier split of these   *)
(* classes (no source_type, no fields, no literal subclasses, no power     *)
(* operator).  The listeners name classes that only nodes.py defines       *)
(* (NullLiteral, PowBinaryExpression, SourceTypeLiteral, ...), so `nodes`  *)
(* is modelled as nodes.py; with the directory importable in its place the *)
(* listeners module does not load at all.                                  *)
(***************************************************************************)
UnaryOperatorValue ==
    [ MINUS |-> "-", PLUS |-> "+", NOT_LOGIC |-> "!", NOT_BIT |-> "~",
      TYPEOF |-> "typeof", VOID |-> "void", DELETE |-> "delete" ]
UnaryOperator(name) == EnumMember("UnaryOperator", name, UnaryOperatorValue[name])

UpdateOperatorValue == [ INCREMENT |-> "++", DECREMENT |-> "--" ]
UpdateOperator(name) == EnumMember("UpdateOperator", name, UpdateOperatorValue[name])

BinaryOperatorValue ==
    [ EQ |-> "==", NEQ |-> "!=", EQ_IDENTITY |-> "===", NEQ_IDENTITY |-> "!==",
      LT |-> "<", LTE |-> "<=", GT |-> ">", GTE |-> ">=", SHL |-> "<<",
      SHR |-> ">>", SHR_LOGIC |-> ">>>", ADD |-> "+", SUB |-> "-", MUL |-> "*",
      DIV |-> "/", MOD |-> "%", OR |-> "|", XOR |-> "^", AND |-> "&",
      INSTANCEOF |-> "instanceof", POW |-> "**" ] @@ ("IN" :> "in")
BinaryOperator(name) == EnumMember("BinaryOperator", name, BinaryOperatorValue[name])

AssignmentOperatorValue ==
    [ ASSIGN |-> "=", ADD |-> "+=", SUB |-> "-=", MUL |-> "*=", DIV |-> "/=",
      MOD |-> "%=", SHL |-> "<<=", SHR |-> ">>=", SHR_LOGIC |-> ">>>=",
      OR |-> "|=", XOR |-> "^=", AND |-> "&=", POW |-> "**=" ]
AssignmentOperator(name) ==
    EnumMember("AssignmentOperator", name, AssignmentOperatorValue[name])

LogicalOperatorValue ==
    [ OR |-> "||", AND |-> "&&", NULLISH_COALESCING |-> "??" ]
LogicalOperator(name) ==
    EnumMember("LogicalOperator", name, LogicalOperatorValue[name])

\* A Position that takes lines from 0, not from 1.
PositionLineFromZero(line, column) ==
    IF line < 0 \/ column < 0
    THEN [ok |-> FALSE, set |-> FALSE, val |-> PyNone, exc |-> "ValueError",
          msg |-> "is not valid ESTree position!"]
    ELSE [ok |-> TRUE, set |-> TRUE, exc |-> "", msg |-> "",
          val |-> [cls |-> "Position", line |-> line, column |-> column]]

\* Position.__init__
Position(line, column) ==
    IF line < 1 \/ column < 0
    THEN Raise("ValueError", "is not valid ESTree position!")
    ELSE Ok([cls |-> "Position", line |-> line, column |-> column])

\* SourceLocation.__init__
SourceLocation(source, start, end) ==
    [cls |-> "SourceLocation", source |-> source, start |-> start, end |-> end]

Program(loc, source_type, body) ==
    [ cls |-> "Program", type |-> "Program", loc |-> loc,
      sourceType |-> source_type, body |-> body,
      keys |-> <<"type", "loc", "sourceType", "body">> ]

EmptyStatement(loc) ==
    [ cls |-> "EmptyStatement", type |-> "EmptyStatement", loc |-> loc,
      keys |-> <<"type", "loc">> ]

BlockStatement(loc, body) ==
    [ cls |-> "BlockStatement", type |-> "BlockStatement", loc |-> loc,
      body |-> body, keys |-> <<"type", "loc", "body">> ]

ExpressionStatement(loc, expression) ==
    [ cls |-> "ExpressionStatement", type |-> "ExpressionStatement", loc |-> loc,
      expression |-> expression, keys |-> <<"type", "loc", "expression">> ]

VariableDeclarator(loc, var_id, init) ==
    [ cls |-> "VariableDeclarator", type |-> "VariableDeclarator", loc |-> loc,
      id |-> var_id, init |-> init, keys |-> <<"type", "loc", "id", "init">> ]

VariableDeclaration(loc, kind, declarations) ==
    [ cls |-> "VariableDeclaration", type |-> "VariableDeclaration", loc |-> loc,
      kind |-> kind, declarations |-> declarations,
      keys |-> <<"type", "loc", "kind", "declarations">> ]

Super(loc) ==
    [ cls |-> "Super", type |-> "Super", loc |-> loc, keys |-> <<"type", "loc">> ]

SpreadElement(loc, argument) ==
    [ cls |-> "SpreadElement", type |-> "SpreadElement", loc |-> loc,
      argument |-> argument, keys |-> <<"type", "loc", "argument">> ]

ThisExpression(loc) ==
    [ cls |-> "ThisExpression", type |-> "ThisExpression", loc |-> loc,
      keys |-> <<"type", "loc">> ]

ArrayExpression(loc, elements) ==
    [ cls |-> "ArrayExpression", type |-> "ArrayExpression", loc |-> loc,
      elements |-> elements, keys |-> <<"type", "loc", "elements">> ]

\* UnaryExpression.__init__ (cls: the class that is instantiated)
UnaryExpression(cls, loc, operator, prefix, argument) ==
    [ cls |-> cls, type |-> "UnaryExpression", loc |-> loc, operator |-> operator,
      prefix |-> PyBool(prefix), argument |-> argument,
      keys |-> <<"type", "loc", "operator", "prefix", "argument">> ]

UpdateExpression(cls, loc, operator, argument, prefix) ==
    [ cls |-> cls, type |-> "UpdateExpression", loc |-> loc, operator |-> operator,
      argument |-> argument, prefix |-> PyBool(prefix),
      keys |-> <<"type", "loc", "operator", "argument", "prefix">> ]

BinaryExpression(cls, loc, operator, left, right) ==
    [ cls |-> cls, type |-> "BinaryExpression", loc |-> loc, operator |-> operator,
      left |-> left, right |-> right,
      keys |-> <<"type", "loc", "operator", "left", "right">> ]

AssignmentExpression(cls, loc, operator, left, right) ==
    [ cls |-> cls, type |-> "AssignmentExpression", loc |-> loc,
      operator |-> operator, left |-> left, right |-> right,
      keys |-> <<"type", "loc", "operator", "left", "right">> ]

SequenceExpression(loc, expressions) ==
    [ cls |-> "SequenceExpression", type |-> "SequenceExpression", loc |-> loc,
      expressions |-> expressions, keys |-> <<"type", "loc", "expressions">> ]

\* The classes made by _generate_unary_expression, by the name each is bound to.
UnaryClassOperator ==
    [ UnaryMinusExpression |-> "MINUS", UnaryPlusExpression |-> "PLUS",
      UnaryLogicNotExpression |-> "NOT_LOGIC", UnaryBitNotExpression |-> "NOT_BIT",
      TypeofExpression |-> "TYPEOF", VoidExpression |-> "VOID",
      DeleteExpression |-> "DELETE" ]

\* _generate_unary_expression(operator).Expr.__init__
GeneratedUnaryExpression(cls, loc, argument) ==
    UnaryExpression(cls, loc, UnaryOperator(UnaryClassOperator[cls]), TRUE, argument)

\* The classes made by _generate_update_expression: operator and prefix.
UpdateClassOperator ==
    [ PreIncrementExpression |-> <<"INCREMENT", TRUE>>,
      PostIncrementExpression |-> <<"INCREMENT", FALSE>>,
      PreDecrementExpression |-> <<"DECREMENT", TRUE>>,
      PostDecrementExpression |-> <<"DECREMENT", FALSE>> ]

\* An update class that takes every node for a prefix one.
GeneratedUpdateExpressionAlwaysPrefix(cls, loc, argument) ==
    UpdateExpression(cls, loc, UpdateOperator(UpdateClassOperator[cls][1]),
                     argument, TRUE)

\* _generate_update_expression(operator, prefix).Expr.__init__
GeneratedUpdateExpression(cls, loc, argument) ==
    UpdateExpression(cls, loc, UpdateOperator(UpdateClassOperator[cls][1]),
                     argument, UpdateClassOperator[cls][2])

\* The classes made by _generate_binary_expression.
BinaryClassOperator ==
    [ EqualityExpression |-> "EQ", NotEqualityExpression |-> "NEQ",
      IdentityEqualityExpression |-> "EQ_IDENTITY",
      NotIdentityEqualityExpression |-> "NEQ_IDENTITY",
      LowerThanRelationExpression |-> "LT",
      LowerThanEqualRelationExpression |-> "LTE",
      GreaterThanRelationExpression |-> "GT",
      GreaterThanEqualRelationExpression |-> "GTE",
      LeftBitShiftExpression |-> "SHL", RightBitShiftExpression |-> "SHR",
      LogicRightBitShiftExpression |-> "SHR_LOGIC",
      AddArithmeticExpression |-> "ADD", SubArithmeticExpression |-> "SUB",
      MulArithmeticExpression |-> "MUL", DivArithmeticExpression |-> "DIV",
      ModArithmeticExpression |-> "MOD", OrBitExpression |-> "OR",
      XorBitExpression |-> "XOR", AndBitExpression |-> "AND",
      InExpression |-> "IN", InstanceofExpression |-> "INSTANCEOF",
      PowBinaryExpression |-> "POW" ]

\* A ModArithmeticExpression made with the operator of DivArithmeticExpression.
GeneratedBinaryExpressionModAsDiv(cls, loc, left, right) ==
    BinaryExpression(cls, loc,
        BinaryOperator(IF cls = "ModArithmeticExpression" THEN "DIV"
                       ELSE BinaryClassOperator[cls]), left, right)

\* _generate_binary_expression(operator).Expr.__init__
GeneratedBinaryExpression(cls, loc, left, right) ==
    BinaryExpression(cls, loc, BinaryOperator(BinaryClassOperator[cls]), left, right)

LogicalExpression(cls, loc, operator, left, right) ==
    [ cls |-> cls, type |-> "LogicalExpression", loc |-> loc,
      operator |-> operator, left |-> left, right |-> right,
      keys |-> <<"type", "loc", "operator", "left", "right">> ]

\* The classes made by _generate_assignment_expression.
AssignmentClassOperator ==
    [ SimpleAssignExpression |-> "ASSIGN", AddAssignExpression |-> "ADD",
      SubAssignExpression |-> "SUB", MulAssignExpression |-> "MUL",
      ModAssignExpression |-> "DIV", ShlAssignExpression |-> "SHL",
      ShrAssignExpression |-> "SHR", LogicShrAssignExpression |-> "SHR_LOGIC",
      OrAssignExpression |-> "OR", XorAssignExpression |-> "XOR",
      AndAssignExpression |-> "AND", PowAssignExpression |-> "POW" ]

\* _generate_assignment_expression(operator).Expr.__init__
GeneratedAssignmentExpression(cls, loc, left, right) ==
    AssignmentExpression(cls, loc, AssignmentOperator(AssignmentClassOperator[cls]),
                         left, right)

\* The classes made by _generate_logical_expression.
LogicalClassOperator ==
    [ OrLogicExpression |-> "OR", AndLogicExpression |-> "AND",
      NullishCoalescingLogicExpression |-> "NULLISH_COALESCING" ]

\* _generate_logical_expression(operator).Expr.__init__
GeneratedLogicalExpression(cls, loc, left, right) ==
    LogicalExpression(cls, loc, LogicalOperator(LogicalClassOperator[cls]),
                      left, right)

\* Literal.__init__ (cls: the class that is instantiated)
Literal(cls, loc, value) ==
    [ cls |-> cls, type |-> "Literal", loc |-> loc, value |-> value,
      keys |-> <<"type", "loc", "value">> ]

\* A NullLiteral that is a plain Literal, without a __str__ of its own.
NullLiteralPlain(loc) == Literal("Literal", loc, PyNone)

NullLiteral(loc) == Literal("NullLiteral", loc, PyNone)
BooleanLiteral(loc, value) == Literal("BooleanLiteral", loc, PyBool(value))
StringLiteral(loc, value) == Literal("StringLiteral", loc, PyStr(value))
NumericLiteral(loc, value) == Literal("NumericLiteral", loc, value)

ArrayPattern(loc, elements) ==
    [ cls |-> "ArrayPattern", type |-> "ArrayPattern", loc |-> loc,
      elements |-> elements, keys |-> <<"type", "loc", "elements">> ]

Identifier(loc, name) ==
    [ cls |-> "Identifier", type |-> "Identifier", loc |-> loc,
      name |-> PyStr(name), keys |-> <<"type", "loc", "name">> ]

\* A Python tuple.
PyTuple(items) == [py |-> "tuple", items |-> items]

\* MetaProperty.__init__: self.meta = (meta,)
MetaProperty(loc, meta, meta_property) ==
    [ cls |-> "MetaProperty", type |-> "MetaProperty", loc |-> loc,
      meta |-> PyTuple(<<meta>>), property |-> meta_property,
      keys |-> <<"type", "loc", "meta", "property">> ]

(***************************************************************************)
(* nodes.py: the classes of the nodes, each with its bases as its class    *)
(* statement names them and with the keys its __init__ adds to _fields     *)
(* once super().__init__ has returned.  PatternForward is the forward      *)
(* declaration of Pattern, the one bound to the name where                 *)
(* MemberExpression is defined.                                            *)
(***************************************************************************)
WrittenClasses ==
    [ PatternForward |-> [bases |-> <<>>, own |-> <<>>],
      Node |-> [bases |-> <<>>, own |-> <<"type", "loc">>],
      Program |-> [bases |-> <<"Node">>, own |-> <<"sourceType", "body">>],
      Function |-> [bases |-> <<"Node">>, own |-> <<"id", "params", "body">>],
      Statement |-> [bases |-> <<"Node">>, own |-> <<>>],
      EmptyStatement |-> [bases |-> <<"Statement">>, own |-> <<>>],
      BlockStatement |-> [bases |-> <<"Statement">>, own |-> <<"body">>],
      ExpressionStatement |->
          [bases |-> <<"Statement">>, own |-> <<"expression">>],
      Directive |->
          [bases |-> <<"Node">>, own |-> <<"expression", "directive">>],
      FunctionBody |-> [bases |-> <<"BlockStatement">>, own |-> <<>>],
      ReturnStatement |-> [bases |-> <<"Statement">>, own |-> <<"argument">>],
      BreakStatement |-> [bases |-> <<"Statement">>, own |-> <<"label">>],
      ContinueStatement |-> [bases |-> <<"Statement">>, own |-> <<"label">>],
      IfStatement |->
          [bases |-> <<"Statement">>, own |-> <<"test", "consequent", "alternate">>],
      WhileStatement |->
          [bases |-> <<"Statement">>, own |-> <<"test", "body">>],
      DoWhileStatement |->
          [bases |-> <<"Statement">>, own |-> <<"body", "test">>],
      ForStatement |->
          [bases |-> <<"Statement">>, own |-> <<"init", "test", "update", "body">>],
      ForInStatement |->
          [bases |-> <<"Statement">>, own |-> <<"left", "right", "body">>],
      Declaration |-> [bases |-> <<"Statement">>, own |-> <<>>],
      FunctionDeclaration |->
          [bases |-> <<"Function", "Declaration">>, own |-> <<>>],
      VariableDeclarator |-> [bases |-> <<"Node">>, own |-> <<"id", "init">>],
      VariableDeclaration |->
          [bases |-> <<"Declaration">>, own |-> <<"kind", "declarations">>],
      Expression |-> [bases |-> <<"Node">>, own |-> <<>>],
      Super |-> [bases |-> <<"Node">>, own |-> <<>>],
      SpreadElement |-> [bases |-> <<"Node">>, own |-> <<"argument">>],
      ThisExpression |-> [bases |-> <<"Expression">>, own |-> <<>>],
      ArrayExpression |-> [bases |-> <<"Expression">>, own |-> <<"elements">>],
      ObjectExpression |->
          [bases |-> <<"Expression">>, own |-> <<"properties">>],
      FunctionExpression |->
          [bases |-> <<"Function", "Expression">>, own |-> <<>>],
      ArrowFunctionExpression |->
          [bases |-> <<"Function", "Expression">>, own |-> <<"expression">>],
      UnaryExpression |->
          [bases |-> <<"Expression">>, own |-> <<"operator", "prefix", "argument">>],
      UpdateExpression |->
          [bases |-> <<"Expression">>, own |-> <<"operator", "argument", "prefix">>],
      BinaryExpression |->
          [bases |-> <<"Expression">>, own |-> <<"operator", "left", "right">>],
      AssignmentExpression |->
          [bases |-> <<"Expression">>, own |-> <<"operator", "left", "right">>],
      LogicalExpression |->
          [bases |-> <<"Expression">>, own |-> <<"operator", "left", "right">>],
      MemberExpression |->
          [bases |-> <<"Expression", "PatternForward">>, own |-> <<"object", "property", "computed">>],
      ConditionalExpression |->
          [bases |-> <<"Expression">>, own |-> <<"test", "alternate", "consequent">>],
      CallExpression |->
          [bases |-> <<"Expression">>, own |-> <<"callee", "arguments">>],
      NewExpression |->
          [bases |-> <<"Expression">>, own |-> <<"callee", "arguments">>],
      SequenceExpression |->
          [bases |-> <<"Expression">>, own |-> <<"expressions">>],
      Literal |-> [bases |-> <<"Expression">>, own |-> <<"value">>],
      BigIntLiteral |-> [bases |-> <<"Literal">>, own |-> <<"bigint">>],
      NullLiteral |-> [bases |-> <<"Literal">>, own |-> <<>>],
      BooleanLiteral |-> [bases |-> <<"Literal">>, own |-> <<>>],
      StringLiteral |-> [bases |-> <<"Literal">>, own |-> <<>>],
      NumericLiteral |-> [bases |-> <<"Literal">>, own |-> <<>>],
      Property |->
          [bases |-> <<"Node">>, own |-> <<"key", "value", "kind", "method", "shorthand", "computed">>],
      AssignmentProperty |-> [bases |-> <<"Property">>, own |-> <<>>],
      Pattern |-> [bases |-> <<"Node">>, own |-> <<>>],
      RestElement |-> [bases |-> <<"Pattern">>, own |-> <<"argument">>],
      ObjectPattern |-> [bases |-> <<"Pattern">>, own |-> <<"properties">>],
      ArrayPattern |-> [bases |-> <<"Pattern">>, own |-> <<"elements">>],
      AssignmentPattern |->
          [bases |-> <<"Pattern">>, own |-> <<"left", "right">>],
      Identifier |->
          [bases |-> <<"Expression", "Pattern">>, own |-> <<"name">>],
      MethodDefinition |->
          [bases |-> <<"Node">>, own |-> <<"key", "value", "kind", "computed", "static">>],
      ClassBody |-> [bases |-> <<"Node">>, own |-> <<"body">>],
      Class |-> [bases |-> <<"Node">>, own |-> <<"id", "superClass", "body">>],
      ClassDeclaration |->
          [bases |-> <<"Class", "Declaration">>, own |-> <<>>],
      ClassExpression |-> [bases |-> <<"Class", "Expression">>, own |-> <<>>],
      MetaProperty |->
          [bases |-> <<"Expression">>, own |-> <<"meta", "property">>],
      ModuleDeclaration |-> [bases |-> <<"Node">>, own |-> <<>>],
      ModuleSpecifier |-> [bases |-> <<"Node">>, own |-> <<"local">>],
      ImportSpecifier |->
          [bases |-> <<"ModuleSpecifier">>, own |-> <<"imported">>],
      ImportDefaultSpecifier |->
          [bases |-> <<"ModuleSpecifier">>, own |-> <<>>],
      ImportNamespaceSpecifier |->
          [bases |-> <<"ModuleSpecifier">>, own |-> <<>>],
      ImportDeclaration |->
          [bases |-> <<"ModuleDeclaration">>, own |-> <<"specifiers", "source">>],
      ImportExpression |-> [bases |-> <<"Expression">>, own |-> <<"source">>],
      ExportSpecifier |->
          [bases |-> <<"ModuleSpecifier">>, own |-> <<"exported">>],
      ExportNamedDeclaration |->
          [bases |-> <<"ModuleDeclaration">>, own |-> <<"declaration", "specifiers", "source">>],
      AnonymousDefaultExportedFunctionDeclaration |->
          [bases |-> <<"Function">>, own |-> <<>>],
      AnonymousDefaultExportedClassDeclaration |->
          [bases |-> <<"Class">>, own |-> <<>>],
      ExportDefaultDeclaration |->
          [bases |-> <<"ModuleDeclaration">>, own |-> <<"declaration">>],
      ExportAllDeclaration |->
          [bases |-> <<"ModuleDeclaration">>, own |-> <<"source", "exported">>] ]

\* The classes _generate_assignment_expression and
\* _generate_logical_expression make.
AssignmentClasses == DOMAIN AssignmentClassOperator
LogicalClasses == DOMAIN LogicalClassOperator

\* A class made by a _generate_*_expression function: class Expr(base).
GeneratedClass(base) == [bases |-> <<base>>, own |-> <<>>]

NodeClasses ==
    WrittenClasses
    @@ [c \in DOMAIN UnaryClassOperator |-> GeneratedClass("UnaryExpression")]
    @@ [c \in DOMAIN UpdateClassOperator |-> GeneratedClass("UpdateExpression")]
    @@ [c \in DOMAIN BinaryClassOperator |-> GeneratedClass("BinaryExpression")]
    @@ [c \in AssignmentClasses |-> GeneratedClass("AssignmentExpression")]
    @@ [c \in LogicalClasses |-> GeneratedClass("LogicalExpression")]

\* The classes that only pass node_type on: no client instantiates them.
AbstractClasses ==
    { "PatternForward", "Node", "Function", "Statement", "Declaration",
      "Expression", "Pattern", "Class", "ModuleDeclaration", "ModuleSpecifier" }
ConcreteClasses == DOMAIN NodeClasses \ AbstractClasses

RECURSIVE C3Merge(_)
\* The merge of the C3 linearization: the first head that is in no tail.
C3Merge(seqs) ==
    LET live == SelectSeq(seqs, LAMBDA s : s # <<>>)
        good == { i \in 1..Len(live) :
                    \A j \in 1..Len(live) :
                        \A k \in 2..Len(live[j]) : live[j][k] # Head(live[i]) }
        h == Head(live[CHOOSE i \in good : \A j \in good : i <= j])
    IN  IF live = <<>> THEN <<>>
        ELSE <<h>> \o C3Merge([i \in 1..Len(live) |->
                                 SelectSeq(live[i], LAMBDA c : c # h)])

RECURSIVE Mro(_)
\* cls.__mro__ up to object
Mro(cls) ==
    LET bases == NodeClasses[cls].bases
    IN  <<cls>> \o C3Merge([i \in 1..Len(bases) |-> Mro(bases[i])] \o <<bases>>)

\* OrderedDict.update: a key that is new goes last.
DictUpdate(keys, more) ==
    keys \o SelectSeq(more, LAMBDA k : \A i \in 1..Len(keys) : keys[i] # k)

RECURSIVE FieldsUpdatedBeforeSuper(_, _)
\* An __init__ chain in which each class adds its keys before it calls
\* super().__init__.
FieldsUpdatedBeforeSuper(mro, i) ==
    IF i > Len(mro) \/ mro[i] = "PatternForward" THEN <<>>
    ELSE IF mro[i] = "Node" THEN DictUpdate(<<>>, NodeClasses["Node"].own)
    ELSE FieldsUpdatedBeforeSuper(mro, i + 1)

RECURSIVE Node_init(_, _)
\* The keys of _fields when the __init__ of mro[i] returns: super().__init__
\* is the __init__ of the next class of the instance's __mro__, Node.__init__
\* starts _fields anew and calls no further.
Node_init(mro, i) ==
    IF i > Len(mro) \/ mro[i] = "PatternForward" THEN <<>>
    ELSE IF mro[i] = "Node" THEN DictUpdate(<<>>, NodeClasses["Node"].own)
    ELSE DictUpdate(Node_init(mro, i + 1), NodeClasses[mro[i]].own)

\* list(cls(...).fields.keys())
FieldsOf(cls) == Node_init(Mro(cls), 1)

(***************************************************************************)
(* parse_tree_listeners.py                                                 *)
(***************************************************************************)
\* _get_source_location(ctx, None)
GetSourceLocation(ctx) ==
    Then(Ok(StartTok(ctx)), LAMBDA start :
    Then(Ok(StopTok(ctx)), LAMBDA stop :
    IF IsNone(start) THEN Raise("AttributeError", "line")
    ELSE Then(Position(start.line, start.col), LAMBDA start_pos :
         IF IsNone(stop) THEN Raise("AttributeError", "line")
         ELSE Then(Position(stop.line, stop.col), LAMBDA end_pos :
              Ok(SourceLocation(PyNone, start_pos,
                     IF end_pos.column # 0
                     THEN [end_pos EXCEPT !.column = @ + 1]
                     ELSE end_pos))))))

\* float(text), as floatobject.c, pystrtod.c and dtoa.c compute it on ASCII
\* text: white space around the text is dropped, a "_" stands between two
\* digits (PEP 515) and is dropped, then come a sign, and inf, infinity or
\* nan in any case or digits with at most one "." and an exponent of base
\* ten.  The value is the 64-bit double nearest to the decimal the text
\* denotes (a tie: the even one), held as the digits repr gives it.
DecimalDigits == {"0", "1", "2", "3", "4", "5", "6", "7", "8", "9"}
WhiteSpace == {" ", "\t", "\n", "", "\f", "\r"}

DigitVal(c) ==
    CASE c = "0" -> 0 [] c = "1" -> 1 [] c = "2" -> 2 [] c = "3" -> 3
      [] c = "4" -> 4 [] c = "5" -> 5 [] c = "6" -> 6 [] c = "7" -> 7
      [] c = "8" -> 8 [] c = "9" -> 9

RECURSIVE DigitsVal(_)
DigitsVal(s) ==
    IF s = <<>> THEN 0
    ELSE DigitsVal(SubSeq(s, 1, Len(s) - 1)) * 10 + DigitVal(s[Len(s)])

RECURSIVE Strip(_)
\* str.strip() of white space
Strip(s) ==
    IF s # <<>> /\ Head(s) \in WhiteSpace THEN Strip(Tail(s))
    ELSE IF s # <<>> /\ s[Len(s)] \in WhiteSpace THEN Strip(SubSeq(s, 1, Len(s) - 1))
    ELSE s

\* str.lower() of the letters of inf, infinity and nan
Lower(c) ==
    CASE c = "I" -> "i" [] c = "N" -> "n" [] c = "F" -> "f" [] c = "T" -> "t"
      [] c = "Y" -> "y" [] c = "A" -> "a" [] OTHER -> c

\* Every "_" has a digit before it and a digit after it.
UnderscoresBetweenDigits(s) ==
    \A i \in 1..Len(s) :
        s[i] = "_" => /\ i > 1 /\ i < Len(s)
                      /\ s[i - 1] \in DecimalDigits /\ s[i + 1] \in DecimalDigits

\* The place of the first character of s that is in cs (none: past the end).
FirstAt(s, cs) ==
    IF \A i \in 1..Len(s) : s[i] \notin cs THEN Len(s) + 1
    ELSE CHOOSE i \in 1..Len(s) : s[i] \in cs /\ \A j \in 1..(i - 1) : s[j] \notin cs

AllDigits(s) == \A i \in 1..Len(s) : s[i] \in DecimalDigits

\* The number of zeros s begins with, and ends with.
LeadingZeros(s) ==
    CHOOSE n \in 0..Len(s) :
        /\ \A j \in 1..n : s[j] = "0"
        /\ n = Len(s) \/ s[n + 1] # "0"
TrailingZeros(s) ==
    CHOOSE n \in 0..Len(s) :
        /\ \A j \in 1..n : s[Len(s) - j + 1] = "0"
        /\ n = Len(s) \/ s[Len(s) - n] # "0"

\* The digits of s without the zeros at either end.
Significant(s) ==
    IF LeadingZeros(s) = Len(s) THEN <<>>
    ELSE SubSeq(s, LeadingZeros(s) + 1, Len(s) - TrailingZeros(s))

DigitChars == <<"0", "1", "2", "3", "4", "5", "6", "7", "8", "9">>

\* The integers dtoa.c holds in a Bigint, here the limbs of base 10000, the
\* lowest first, the highest not 0 (none: zero).  Trim leaves out the zero
\* limbs at the top.
Trim(a) ==
    SubSeq(a, 1, CHOOSE n \in 0..Len(a) :
                     /\ n = 0 \/ a[n] # 0
                     /\ \A j \in (n + 1)..Len(a) : a[j] = 0)

\* The i-th limb of a, counted from the bottom (0 outside a) and from the top.
Limb(a, i) == IF i >= 1 /\ i <= Len(a) THEN a[i] ELSE 0
Top(a, i) == a[Len(a) - i + 1]

\* a * 2 and a * 4: a limb takes the carry of the limb below it and none
\* from further down.
Mul(a, d) ==
    IF a = <<>> THEN <<>>
    ELSE
    Trim([i \in 1..(Len(a) + 1) |->
             ((d * Limb(a, i)) % 10000) + ((d * Limb(a, i - 1)) \div 10000)])

RECURSIVE Column(_, _, _, _, _)
\* What the limbs from the lo-th to the hi-th of a give to the k-th limb of
\* a * b: the low halves of the products of that place and the high halves
\* of the place below.
Column(a, b, k, lo, hi) ==
    IF lo > hi THEN 0
    ELSE IF lo = hi
    THEN ((a[lo] * Limb(b, k + 1 - lo)) % 10000) + ((a[lo] * Limb(b, k - lo)) \div 10000)
    ELSE Column(a, b, k, lo, (lo + hi) \div 2)
         + Column(a, b, k, (lo + hi) \div 2 + 1, hi)

\* The carries: a limb gives its overflow to the next, twice, and is then
\* 10000 at most; a carry of 1 is what is left to run through limbs of 9999.
Carried(s) ==
    SubSeq([i \in 1..(Len(s) + 1) |-> (Limb(s, i) % 10000) + (Limb(s, i - 1) \div 10000)],
           1, Len(s) + 1)
CarryFrom(s, i, j) == IF j < i /\ s[i - j] >= 10000 THEN 1 ELSE 0
CarryIn(s, i) ==
    CarryFrom(s, i, CHOOSE j \in 1..i :
                        /\ j = i \/ s[i - j] # 9999
                        /\ \A k \in 1..(j - 1) : s[i - k] = 9999)
Rippled(s) == Trim([i \in 1..Len(s) |-> (s[i] + CarryIn(s, i)) % 10000])

\* a * b
Times(a, b) ==
    IF a = <<>> \/ b = <<>> THEN <<>>
    ELSE
    Rippled(Carried(Carried(SubSeq([k \in 1..(Len(a) + Len(b)) |->
                                        Column(a, b, k, 1, Len(a))],
                                   1, Len(a) + Len(b)))))

\* a * a
Square(a) == Times(a, a)

RECURSIVE Power(_, _)
\* d^n, d < 10000
Power(d, n) ==
    IF n <= 0 THEN <<1>>
    ELSE IF n % 2 = 1 THEN Times(Power(d, n - 1), <<d>>)
    ELSE Square(Power(d, n \div 2))

\* a * 2^n, a * 5^n and a * 10^n (n <= 0: a)
Mul2(a, n) == IF n <= 0 THEN a ELSE Times(a, Power(2, n))
Mul5(a, n) == IF n <= 0 THEN a ELSE Times(a, Power(5, n))
Mul10(a, n) ==
    IF n <= 0 \/ a = <<>> THEN a
    ELSE [i \in 1..(n \div 4) |-> 0] \o Times(a, Power(10, n % 4))

\* a >= b: the limbs are the same, or the topmost that differs is greater.
GreaterAt(a, b, i) == i > Len(a) \/ Top(a, i) > Top(b, i)
GreaterEqual(a, b) ==
    IF Len(a) # Len(b) THEN Len(a) > Len(b)
    ELSE GreaterAt(a, b, CHOOSE i \in 1..(Len(a) + 1) :
                             /\ i > Len(a) \/ Top(a, i) # Top(b, i)
                             /\ \A j \in 1..(i - 1) : Top(a, j) = Top(b, j))

\* The borrow the i-th limb of a - b gives: of the limbs below it, the
\* topmost that differs is less.
BorrowFrom(a, b, i, j) == IF j < i /\ a[i - j] < Limb(b, i - j) THEN 1 ELSE 0
Borrow(a, b, i) ==
    BorrowFrom(a, b, i, CHOOSE j \in 1..i :
                            /\ j = i \/ a[i - j] # Limb(b, i - j)
                            /\ \A k \in 1..(j - 1) : a[i - k] = Limb(b, i - k))

\* a - b, a >= b
Sub(a, b) ==
    IF b = <<>> THEN a
    ELSE
    Trim([i \in 1..Len(a) |-> (a[i] - Limb(b, i) - Borrow(a, b, i) + 10000) % 10000])

RECURSIVE Add1(_)
\* a + 1
Add1(a) ==
    IF a = <<>> THEN <<1>>
    ELSE IF Head(a) < 9999 THEN <<Head(a) + 1>> \o Tail(a)
    ELSE <<0>> \o Add1(Tail(a))

\* a + 1 and a + 2 for a = 0 mod 4 (no carry)
Or1(a) == IF a = <<>> THEN <<1>> ELSE [a EXCEPT ![1] = @ + 1]
Or2(a) == IF a = <<>> THEN <<2>> ELSE [a EXCEPT ![1] = @ + 2]

IsOdd(a) == a # <<>> /\ a[1] % 2 = 1

\* The integer of decimal digits ds, and the decimal digits of an integer.
FromDigits(ds) ==
    Trim([i \in 1..((Len(ds) + 3) \div 4) |->
             DigitsVal(SubSeq(ds, IF Len(ds) - 4 * i + 1 < 1 THEN 1
                                  ELSE Len(ds) - 4 * i + 1,
                              Len(ds) - 4 * i + 4))])
ToDigits(a) ==
    SubSeq([j \in 1..(4 * Len(a)) |->
               DigitChars[((Top(a, (j + 3) \div 4)
                            \div (CASE j % 4 = 1 -> 1000 [] j % 4 = 2 -> 100
                                    [] j % 4 = 3 -> 10 [] OTHER -> 1)) % 10) + 1]],
           1, 4 * Len(a))

\* The constants of a double (float.h): the bits of the mantissa, the
\* exponent of the lowest bit of the least and of the largest double, the
\* decimal digits every normal double keeps, and the largest power of ten.
DBL_MANT_DIG == 53
MinBitExp == 0 - 1074
MaxBitExp == 971
DBL_DIG == 15
DBL_MAX_10_EXP == 308
\* 2^52 = 4503599627370496 and 2^53 = 9007199254740992
TwoTo52 == <<496, 2737, 5996, 4503>>
TwoTo53 == <<992, 5474, 1992, 9007>>

\* One more bit of the quotient m of r / q, r2 < 2 * q being twice what is
\* left: the quotient and what is left then.
QuotientBit(m, r2, q) ==
    IF GreaterEqual(r2, q) THEN <<Or1(Mul(m, 2)), Sub(r2, q)>>
    ELSE <<Mul(m, 2), r2>>

RECURSIVE Further(_, _, _)
\* n more bits of the quotient mr[1], mr[2] < q being what is left (nothing
\* left: the bits are 0).
Further(mr, q, n) ==
    IF n = 0 \/ mr[2] = <<>> THEN <<Mul2(mr[1], n), <<>>>>
    ELSE IF n = 1 THEN QuotientBit(mr[1], Mul(mr[2], 2), q)
    ELSE Further(Further(mr, q, n \div 2), q, n - n \div 2)

\* The first n bits of the quotient of r / q, r < q, and what is left.
Quotient(r, q, n) == Further(<<<<>>, r>>, q, n)

\* The quotient mr[1] with what is left, mr[2], of the divisor q: rounded to
\* the nearest integer, a tie to the even one.
Nearest(mr, q) ==
    IF Mul(mr[2], 2) = q THEN (IF IsOdd(mr[1]) THEN Add1(mr[1]) ELSE mr[1])
    ELSE IF GreaterEqual(Mul(mr[2], 2), q) THEN Add1(mr[1])
    ELSE mr[1]

RECURSIVE Scaled(_, _, _)
\* The least e2 >= e with p < q * 2^(e2 - e), and q * 2^(e2 - e).
Scaled(p, q, e) == IF GreaterEqual(p, q) THEN Scaled(p, Mul(q, 2), e + 1) ELSE <<q, e>>

\* The mantissa m and the exponent e of the double m * 2^e, m of at most
\* DBL_MANT_DIG bits and e >= MinBitExp, nearest to p / q * 2^e0.
BinaryNormal(m, e) == IF m = TwoTo53 THEN <<TwoTo52, e + 1>> ELSE <<m, e>>
BinaryScaled(p, qe) ==
    BinaryNormal(Nearest(Quotient(p, qe[1], DBL_MANT_DIG), qe[1]), qe[2])
BinaryFrom(p, q, e0) == BinaryScaled(p, Scaled(p, Mul2(q, DBL_MANT_DIG), e0))

\* An exponent e0 with 2^(e0 + DBL_MANT_DIG) <= 10^(exp - 1), MinBitExp at
\* least (3321928 / 1000000 < log2(10)).
EstimatedExp(exp) ==
    IF ((exp - 1) * 3321928) \div 1000000 - 2 - DBL_MANT_DIG < MinBitExp
    THEN MinBitExp
    ELSE ((exp - 1) * 3321928) \div 1000000 - 2 - DBL_MANT_DIG

\* The double nearest to d * 10^k
BinaryAt(d, k, e0) ==
    BinaryFrom(Mul2(Mul10(d, k), 0 - e0), Mul2(Mul10(<<1>>, 0 - k), e0), e0)
BinaryOf(digits, exp) ==
    BinaryAt(FromDigits(digits), exp - Len(digits), EstimatedExp(exp))

\* a < b, decimal digits of one length
Less(a, b) ==
    \E i \in 1..Len(a) :
        /\ DigitVal(a[i]) < DigitVal(b[i])
        /\ \A j \in 1..(i - 1) : a[j] = b[j]

\* The digits x cut after the c-th, and the next number above with c digits
\* (none: no digits).
Down(x, c) == [i \in 1..Len(x) |-> IF i <= c THEN x[i] ELSE "0"]
Up(x, c) ==
    IF \A j \in 1..c : x[j] = "9" THEN <<>>
    ELSE [i \in 1..Len(x) |->
            IF i > c \/ \A j \in i..c : x[j] = "9" THEN "0"
            ELSE IF \A j \in (i + 1)..c : x[j] = "9" THEN DigitChars[DigitVal(x[i]) + 2]
            ELSE x[i]]

\* x is nearer to Up(x, c) than to Down(x, c), a tie going to the even digit.
NearerUp(x, c) ==
    \/ DigitVal(x[c + 1]) > 5
    \/ /\ x[c + 1] = "5"
       /\ \/ \E j \in (c + 2)..Len(x) : x[j] # "0"
          \/ DigitVal(x[c]) % 2 = 1

RECURSIVE ShortestFrom(_, _, _, _, _)
\* The number of the fewest digits, c at least, that rounds to the double x:
\* it lies between lo and hi, the bounds taken in when the mantissa is even.
ShortestFrom(x, lo, hi, even, c) ==
    IF c >= Len(x) THEN x
    ELSE IF /\ Up(x, c) # <<>>
            /\ Less(Up(x, c), hi) \/ (even /\ Up(x, c) = hi)
            /\ \/ NearerUp(x, c)
               \/ ~(Less(lo, Down(x, c)) \/ (even /\ Down(x, c) = lo))
    THEN Up(x, c)
    ELSE IF Less(lo, Down(x, c)) \/ (even /\ Down(x, c) = lo)
    THEN Down(x, c)
    ELSE ShortestFrom(x, lo, hi, even, c + 1)

\* The like for the digits x, lo and hi as they come, hi the longest: from
\* the first digit of x on.
ShortestIn(x, lo, hi, even) ==
    ShortestFrom([i \in 1..(Len(hi) - Len(x)) |-> "0"] \o x,
                 [i \in 1..(Len(hi) - Len(lo)) |-> "0"] \o lo,
                 hi, even, Len(hi) - Len(x) + LeadingZeros(x) + 1)

\* The decimal digits of m4 * scale
Decimal(m4, scale) == ToDigits(Times(m4, scale))

\* The float of the decimal digits dec * 10^e10
Repr(neg, dec, e10) ==
    PyFloat("finite", neg, Significant(dec), e10 + Len(dec) - LeadingZeros(dec))

\* The float of the double m4 * 2^e2, m4 four times the mantissa: the
\* decimals that round to it lie from (m4 - below) * 2^e2 to (m4 + 2) * 2^e2,
\* and m4 * 2^e2 is m4 * 5^(-e2) * 10^e2.
DoubleRepr(neg, m4, below, scale, e10, even) ==
    Repr(neg,
         ShortestIn(Decimal(m4, scale), Decimal(Sub(m4, <<below>>), scale),
                    Decimal(Or2(m4), scale), even),
         e10)

\* The float of the double me[1] * 2^me[2]: the doubles below a power of two
\* lie at half the distance.
DoubleOf(neg, me) ==
    IF me[1] = <<>> THEN PyFloat("finite", neg, <<>>, 0)
    ELSE IF me[2] > MaxBitExp THEN PyFloat("inf", neg, <<>>, 0)
    ELSE DoubleRepr(neg, Mul(me[1], 4),
                    IF me[1] = TwoTo52 /\ me[2] > MinBitExp THEN 1 ELSE 2,
                    IF me[2] >= 2 THEN Power(2, me[2] - 2) ELSE Power(5, 2 - me[2]),
                    IF me[2] >= 2 THEN 0 ELSE me[2] - 2,
                    ~IsOdd(me[1]))

\* The double of 0.digits * 10^exp, digits without zeros at either end.  A
\* normal double keeps DBL_DIG digits: the digits are then those of repr.
Rounded(neg, digits, exp) ==
    IF digits = <<>> THEN PyFloat("finite", neg, <<>>, 0)
    ELSE IF exp > DBL_MAX_10_EXP + 2 THEN PyFloat("inf", neg, <<>>, 0)
    ELSE IF exp < 0 - DBL_MAX_10_EXP - 22 THEN PyFloat("finite", neg, <<>>, 0)
    ELSE IF Len(digits) <= DBL_DIG /\ exp >= 2 - DBL_MAX_10_EXP /\ exp <= DBL_MAX_10_EXP
    THEN PyFloat("finite", neg, digits, exp)
    ELSE DoubleOf(neg, BinaryOf(digits, exp))

\* The digits after the "e" and the sign of an exponent part ex ("e...").
ExponentDigits(ex) ==
    IF Len(ex) >= 2 /\ ex[2] \in {"+", "-"} THEN SubSeq(ex, 3, Len(ex))
    ELSE SubSeq(ex, 2, Len(ex))

\* The value of an exponent part (none: 0), MAX_ABS_EXP for one of more than
\* 9 digits after its leading zeros (dtoa.c).
MAX_ABS_EXP == 1100000000
ExponentValue(ex) ==
    IF ex = <<>> THEN 0
    ELSE (IF ex[2] = "-" THEN 0 - 1 ELSE 1)
         * (IF Len(ExponentDigits(ex)) - LeadingZeros(ExponentDigits(ex)) > 9
            THEN MAX_ABS_EXP
            ELSE DigitsVal(ExponentDigits(ex)))

\* The digits before and after the "." of a mantissa m, and the exponent
\* part ex: a number has a digit in its mantissa and, after an "e", a digit.
FloatNumber(neg, whole, frac, ex) ==
    IF /\ AllDigits(whole) /\ AllDigits(frac) /\ whole \o frac # <<>>
       /\ ex # <<>> => ExponentDigits(ex) # <<>> /\ AllDigits(ExponentDigits(ex))
    THEN Ok(Rounded(neg, Significant(whole \o frac),
                    Len(whole) - LeadingZeros(whole \o frac) + ExponentValue(ex)))
    ELSE Raise("ValueError", "could not convert string to float")

FloatMantissa(neg, m, ex) ==
    FloatNumber(neg, SubSeq(m, 1, FirstAt(m, {"."}) - 1),
                SubSeq(m, FirstAt(m, {"."}) + 1, Len(m)), ex)

FloatUnsigned(neg, t) ==
    IF [i \in 1..Len(t) |-> Lower(t[i])] \in
           { <<"i", "n", "f">>, <<"i", "n", "f", "i", "n", "i", "t", "y">> }
    THEN Ok(PyFloat("inf", neg, <<>>, 0))
    ELSE IF [i \in 1..Len(t) |-> Lower(t[i])] = <<"n", "a", "n">>
    THEN Ok(PyFloat("nan", FALSE, <<>>, 0))
    ELSE FloatMantissa(neg, SubSeq(t, 1, FirstAt(t, {"e", "E"}) - 1),
                       SubSeq(t, FirstAt(t, {"e", "E"}), Len(t)))

FloatStripped(s) ==
    IF ~UnderscoresBetweenDigits(s)
    THEN Raise("ValueError", "could not convert string to float")
    ELSE IF s # <<>> /\ Head(s) \in {"+", "-"}
    THEN FloatUnsigned(Head(s) = "-", SelectSeq(Tail(s), LAMBDA c : c # "_"))
    ELSE FloatUnsigned(FALSE, SelectSeq(s, LAMBDA c : c # "_"))

\* float(text): the float, or ValueError
Float(text) == FloatStripped(Strip(text))

\* LiteralListener.enterNumericLiteral
LiteralListener_enterNumericLiteral(ctx) ==
    Then(GetSourceLocation(ctx), LAMBDA loc :
    IF IsNone(GetToken(ctx, "DecimalLiteral")) THEN Raise("AttributeError", "getText")
    ELSE Then(Float(GetText(GetToken(ctx, "DecimalLiteral"))), LAMBDA value :
         Ok(NumericLiteral(loc, value))))

\* LiteralListener.enterBigintLiteral
LiteralListener_enterBigintLiteral(ctx) ==
    Raise("NotImplementedError", "Bigint literals")

\* str[1:-1]
StripQuotes(text) == SubSeq(text, 2, Len(text) - 1)

\* LiteralListener.enterLiteral
LiteralListener_enterLiteral(ctx) ==
    Then(GetSourceLocation(ctx), LAMBDA loc :
    IF ~IsNone(GetToken(ctx, "NullLiteral"))
    THEN Ok(NullLiteral(loc))
    ELSE IF ~IsNone(GetToken(ctx, "BooleanLiteral"))
    THEN Ok(BooleanLiteral(loc,
                GetText(GetToken(ctx, "BooleanLiteral")) = <<"t", "r", "u", "e">>))
    ELSE IF ~IsNone(GetToken(ctx, "StringLiteral"))
    THEN Ok(StringLiteral(loc,
                StripQuotes(GetText(GetToken(ctx, "StringLiteral")))))
    ELSE IF IsNone(GetChild(ctx, 0)) \/ GetChild(ctx, 0).term
    THEN Raise("AttributeError", "enterRule")
    ELSE IF GetChild(ctx, 0).rule = "numericLiteral"
    THEN LiteralListener_enterNumericLiteral(GetChild(ctx, 0))
    ELSE IF GetChild(ctx, 0).rule = "bigintLiteral"
    THEN LiteralListener_enterBigintLiteral(GetChild(ctx, 0))
    ELSE Unset)

\* ctx.enterRule(LiteralListener()): the handler the context's rule selects;
\* the handlers the class leaves to JavaScriptParserListener do nothing.
LiteralListener(ctx) ==
    IF IsNone(ctx) \/ ctx.term THEN Raise("AttributeError", "enterRule")
    ELSE IF ctx.rule = "literal" THEN LiteralListener_enterLiteral(ctx)
    ELSE IF ctx.rule = "numericLiteral" THEN LiteralListener_enterNumericLiteral(ctx)
    ELSE IF ctx.rule = "bigintLiteral" THEN LiteralListener_enterBigintLiteral(ctx)
    ELSE Unset

\* A scan of the ops_list that keeps the last token found, not the first.
LastNonNull(ctx, ops_list) ==
    LET idx == { i \in 1..Len(ops_list) : ~IsNone(GetToken(ctx, ops_list[i][1])) }
    IN  IF idx = {} THEN 0 ELSE CHOOSE i \in idx : \A j \in idx : i >= j

\* The first pair of an ops_list whose token accessor is not None (0: none):
\* `for (op_cond, op) in ops_list: if op_cond is not None: ...; break`
FirstNonNull(ctx, ops_list) ==
    LET idx == { i \in 1..Len(ops_list) : ~IsNone(GetToken(ctx, ops_list[i][1])) }
    IN  IF idx = {} THEN 0 ELSE CHOOSE i \in idx : \A j \in idx : i <= j

\* An ops_list that gives the remainder assignment the operator of division.
AssignmentOpsModAsDiv ==
    << <<"MultiplyAssign", "MUL">>, <<"DivideAssign", "DIV">>,
       <<"ModulusAssign", "DIV">>, <<"PlusAssign", "ADD">>,
       <<"MinusAssign", "SUB">>, <<"LeftShiftArithmeticAssign", "SHL">>,
       <<"RightShiftArithmeticAssign", "SHR">>,
       <<"RightShiftLogicalAssign", "SHR_LOGIC">>, <<"BitAndAssign", "AND">>,
       <<"BitXorAssign", "XOR">>, <<"BitOrAssign", "OR">>,
       <<"PowerAssign", "POW">> >>

\* AssignmentOperatorListener.enterAssignmentOperator: ops_list
AssignmentOps ==
    << <<"MultiplyAssign", "MUL">>, <<"DivideAssign", "DIV">>,
       <<"ModulusAssign", "MOD">>, <<"PlusAssign", "ADD">>,
       <<"MinusAssign", "SUB">>, <<"LeftShiftArithmeticAssign", "SHL">>,
       <<"RightShiftArithmeticAssign", "SHR">>,
       <<"RightShiftLogicalAssign", "SHR_LOGIC">>, <<"BitAndAssign", "AND">>,
       <<"BitXorAssign", "XOR">>, <<"BitOrAssign", "OR">>,
       <<"PowerAssign", "POW">> >>

\* AssignmentOperatorListener.enterAssignmentOperator
AssignmentOperatorListener_enterAssignmentOperator(ctx) ==
    LET i == FirstNonNull(ctx, AssignmentOps)
    IN  IF i = 0 THEN Unset ELSE Ok(AssignmentOperator(AssignmentOps[i][2]))

\* ctx.enterRule(AssignmentOperatorListener())
AssignmentOperatorListener(ctx) ==
    IF IsNone(ctx) \/ ctx.term THEN Raise("AttributeError", "enterRule")
    ELSE IF ctx.rule = "assignmentOperator"
    THEN AssignmentOperatorListener_enterAssignmentOperator(ctx)
    ELSE Unset

\* The ops_list of the binary productions with several candidate tokens.
MultiplicativeOps ==
    << <<"Multiply", "MulArithmeticExpression">>,
       <<"Divide", "DivArithmeticExpression">>,
       <<"Modulus", "ModArithmeticExpression">> >>
AdditiveOps ==
    << <<"Plus", "AddArithmeticExpression">>,
       <<"Minus", "SubArithmeticExpression">> >>
BitShiftOps ==
    << <<"LeftShiftArithmetic", "LeftBitShiftExpression">>,
       <<"RightShiftArithmetic", "RightBitShiftExpression">>,
       <<"RightShiftLogical", "LogicRightBitShiftExpression">> >>
RelationalOps ==
    << <<"LessThan", "LowerThanRelationExpression">>,
       <<"LessThanEquals", "LowerThanEqualRelationExpression">>,
       <<"MoreThan", "GreaterThanRelationExpression">>,
       <<"GreaterThanEquals", "GreaterThanEqualRelationExpression">> >>
EqualityOps ==
    << <<"Equals_", "EqualityExpression">>,
       <<"NotEquals", "NotEqualityExpression">>,
       <<"IdentityEquals", "IdentityEqualityExpression">>,
       <<"IdentityNotEquals", "NotIdentityEqualityExpression">> >>

RECURSIVE ExpressionListener(_)
RECURSIVE ArrayLiteralExpandListener(_)
RECURSIVE ExpressionList(_)
RECURSIVE ArrayElementList(_, _)

\* expr_listener = ExpressionListener(); expr.enterRule(expr_listener);
\* expr_listener.expression
BuiltExpression(ctx) == ReadAttr(ExpressionListener(ctx), "_expr")

\* The loop of enterExpressionSequence: the list of the built expressions, or
\* the first exception.
ExpressionList(ctxs) ==
    IF ctxs = <<>> THEN Ok(<<>>)
    ELSE Then(BuiltExpression(Head(ctxs)), LAMBDA e :
         Then(ExpressionList(Tail(ctxs)), LAMBDA rest : Ok(<<e>> \o rest)))

\* An enterExpressionSequence that leaves a single expression unwrapped.
ExpressionSequenceBareWhenSingle(ctx) ==
    Then(GetSourceLocation(ctx), LAMBDA loc :
    Then(ExpressionList(GetRules(ctx, SingleExpressionRules)), LAMBDA expressions :
    IF Len(expressions) = 1 THEN Ok(expressions[1])
    ELSE Ok(SequenceExpression(loc, expressions))))

\* ExpressionListener.enterExpressionSequence
ExpressionListener_enterExpressionSequence(ctx) ==
    Then(GetSourceLocation(ctx), LAMBDA loc :
    Then(ExpressionList(GetRules(ctx, SingleExpressionRules)), LAMBDA expressions :
    Ok(SequenceExpression(loc, expressions))))

\* ExpressionListener.enterExpressionStatement and enterParenthesizedExpression:
\* the sequence is entered, then the production is refused.
ExpressionListener_enterUnsupportedSequence(ctx, name) ==
    After(ExpressionListener(GetRule(ctx, {"expressionSequence"}, 0)), LAMBDA e :
    Raise("NotImplementedError", name))

\* ExpressionListener.enterLiteralExpression
ExpressionListener_enterLiteralExpression(ctx) ==
    ReadAttr(LiteralListener(GetRule(ctx, {"literal"}, 0)), "_literal")

\* ExpressionListener.enterIdentifier
ExpressionListener_enterIdentifier(ctx) ==
    Then(GetSourceLocation(ctx), LAMBDA loc : Ok(Identifier(loc, GetText(ctx))))

\* The handlers of the update and unary productions, cls the class each
\* instantiates.
ExpressionListener_enterUnary(ctx, gen(_, _, _), cls) ==
    After(ExpressionListener(GetRule(ctx, SingleExpressionRules, 0)), LAMBDA arg :
    Then(GetSourceLocation(ctx), LAMBDA loc :
    Then(ReadAttr(arg, "_expr"), LAMBDA argument :
    Ok(gen(cls, loc, argument)))))

\* ExpressionListener.enterPowerExpression
ExpressionListener_enterPowerExpression(ctx) ==
    After(ExpressionListener(GetRule(ctx, SingleExpressionRules, 0)), LAMBDA l :
    After(ExpressionListener(GetRule(ctx, SingleExpressionRules, 1)), LAMBDA r :
    Then(GetSourceLocation(ctx), LAMBDA loc :
    Then(ReadAttr(l, "_expr"), LAMBDA left :
    Then(ReadAttr(r, "_expr"), LAMBDA right :
    Ok(GeneratedBinaryExpression("PowBinaryExpression", loc, left, right)))))))

\* ExpressionListener.enterMultiplicativeExpression, enterAdditiveExpression,
\* enterBitShiftExpression, enterRelationalExpression, enterEqualityExpression
ExpressionListener_enterBinaryOps(ctx, ops_list) ==
    After(ExpressionListener(GetRule(ctx, SingleExpressionRules, 0)), LAMBDA l :
    After(ExpressionListener(GetRule(ctx, SingleExpressionRules, 1)), LAMBDA r :
    Then(GetSourceLocation(ctx), LAMBDA loc :
    IF FirstNonNull(ctx, ops_list) = 0 THEN Unset
    ELSE Then(ReadAttr(l, "_expr"), LAMBDA left :
         Then(ReadAttr(r, "_expr"), LAMBDA right :
         Ok(GeneratedBinaryExpression(ops_list[FirstNonNull(ctx, ops_list)][2],
                                      loc, left, right)))))))

\* ExpressionListener.enterAssignmentExpression
ExpressionListener_enterAssignmentExpression(ctx) ==
    After(ExpressionListener(GetRule(ctx, SingleExpressionRules, 0)), LAMBDA l :
    After(ExpressionListener(GetRule(ctx, SingleExpressionRules, 1)), LAMBDA r :
    Then(GetSourceLocation(ctx), LAMBDA loc :
    Then(ReadAttr(l, "_expr"), LAMBDA left :
    Then(ReadAttr(r, "_expr"), LAMBDA right :
    Ok(AssignmentExpression("AssignmentExpression", loc,
                            AssignmentOperator("ASSIGN"), left, right)))))))

\* ExpressionListener.enterAssignmentOperatorExpression
ExpressionListener_enterAssignmentOperatorExpression(ctx) ==
    After(ExpressionListener(GetRule(ctx, SingleExpressionRules, 0)), LAMBDA l :
    After(ExpressionListener(GetRule(ctx, SingleExpressionRules, 1)), LAMBDA r :
    After(AssignmentOperatorListener(GetRule(ctx, {"assignmentOperator"}, 0)), LAMBDA o :
    Then(GetSourceLocation(ctx), LAMBDA loc :
    Then(ReadAttr(l, "_expr"), LAMBDA left :
    Then(ReadAttr(r, "_expr"), LAMBDA right :
    Then(ReadAttr(o, "_op"), LAMBDA operator :
    Ok(AssignmentExpression("AssignmentExpression", loc, operator, left, right)))))))))

\* ExpressionListener.enterThisExpression
ExpressionListener_enterThisExpression(ctx) ==
    Then(GetSourceLocation(ctx), LAMBDA loc : Ok(ThisExpression(loc)))

\* ExpressionListener.enterSuperExpression
ExpressionListener_enterSuperExpression(ctx) ==
    Then(GetSourceLocation(ctx), LAMBDA loc : Ok(Super(loc)))

\* ExpressionListener.enterArrayLiteralExpression
ExpressionListener_enterArrayLiteralExpression(ctx) ==
    After(ArrayLiteralExpandListener(GetRule(ctx, {"arrayLiteral"}, 0)), LAMBDA arr :
    Then(GetSourceLocation(ctx), LAMBDA loc :
    Then(ReadAttr(arr, "_exprs"), LAMBDA elements :
    Ok(ArrayExpression(loc, elements)))))

\* The productions whose handler only raises NotImplementedError(<name>).
ExpressionTodo ==
    { "FunctionExpression", "ClassExpression", "MemberIndexExpression",
      "MemberDotExpression", "ArgumentsExpression", "NewExpression",
      "MetaExpression", "CoalesceExpression", "InExpression",
      "BitAndExpression", "BitOrExpression", "BitXOrExpression",
      "LogicalAndExpression", "LogicalOrExpression", "TernaryExpression",
      "ImportExpression", "ObjectLiteralExpression" }

\* ctx.enterRule(ExpressionListener()): the handler the context's rule
\* selects; the handlers the class leaves to JavaScriptParserListener do
\* nothing.
ExpressionListener(ctx) ==
    IF IsNone(ctx) \/ ctx.term THEN Raise("AttributeError", "enterRule")
    ELSE CASE ctx.rule = "expressionStatement" ->
                ExpressionListener_enterUnsupportedSequence(ctx, "ExpressionStatement")
           [] ctx.rule = "expressionSequence" ->
                ExpressionListener_enterExpressionSequence(ctx)
           [] ctx.rule = "ParenthesizedExpression" ->
                ExpressionListener_enterUnsupportedSequence(ctx, "ParenthesizedExpression")
           [] ctx.rule = "LiteralExpression" ->
                ExpressionListener_enterLiteralExpression(ctx)
           [] ctx.rule \in ExpressionTodo -> Raise("NotImplementedError", ctx.rule)
           [] ctx.rule = "PostIncrementExpression" ->
                ExpressionListener_enterUnary(ctx, GeneratedUpdateExpression, "PostIncrementExpression")
           [] ctx.rule = "PostDecreaseExpression" ->
                ExpressionListener_enterUnary(ctx, GeneratedUpdateExpression, "PostDecrementExpression")
           [] ctx.rule = "DeleteExpression" ->
                ExpressionListener_enterUnary(ctx, GeneratedUnaryExpression, "DeleteExpression")
           [] ctx.rule = "VoidExpression" ->
                ExpressionListener_enterUnary(ctx, GeneratedUnaryExpression, "VoidExpression")
           [] ctx.rule = "TypeofExpression" ->
                ExpressionListener_enterUnary(ctx, GeneratedUnaryExpression, "TypeofExpression")
           [] ctx.rule = "PreIncrementExpression" ->
                ExpressionListener_enterUnary(ctx, GeneratedUpdateExpression, "PreIncrementExpression")
           [] ctx.rule = "PreDecreaseExpression" ->
                ExpressionListener_enterUnary(ctx, GeneratedUpdateExpression, "PreDecrementExpression")
           [] ctx.rule = "UnaryPlusExpression" ->
                ExpressionListener_enterUnary(ctx, GeneratedUnaryExpression, "UnaryPlusExpression")
           [] ctx.rule = "UnaryMinusExpression" ->
                ExpressionListener_enterUnary(ctx, GeneratedUnaryExpression, "UnaryMinusExpression")
           [] ctx.rule = "BitNotExpression" ->
                ExpressionListener_enterUnary(ctx, GeneratedUnaryExpression, "UnaryBitNotExpression")
           [] ctx.rule = "NotExpression" ->
                ExpressionListener_enterUnary(ctx, GeneratedUnaryExpression, "UnaryLogicNotExpression")
           [] ctx.rule = "PowerExpression" ->
                ExpressionListener_enterPowerExpression(ctx)
           [] ctx.rule = "MultiplicativeExpression" ->
                ExpressionListener_enterBinaryOps(ctx, MultiplicativeOps)
           [] ctx.rule = "AdditiveExpression" ->
                ExpressionListener_enterBinaryOps(ctx, AdditiveOps)
           [] ctx.rule = "BitShiftExpression" ->
                ExpressionListener_enterBinaryOps(ctx, BitShiftOps)
           [] ctx.rule = "RelationalExpression" ->
                ExpressionListener_enterBinaryOps(ctx, RelationalOps)
           [] ctx.rule = "EqualityExpression" ->
                ExpressionListener_enterBinaryOps(ctx, EqualityOps)
           [] ctx.rule = "AssignmentExpression" ->
                ExpressionListener_enterAssignmentExpression(ctx)
           [] ctx.rule = "AssignmentOperatorExpression" ->
                ExpressionListener_enterAssignmentOperatorExpression(ctx)
           [] ctx.rule = "ThisExpression" ->
                ExpressionListener_enterThisExpression(ctx)
           [] ctx.rule = "IdentifierExpression" ->
                ExpressionListener(GetRule(ctx, {"identifier"}, 0))
           [] ctx.rule = "identifier" ->
                ExpressionListener_enterIdentifier(ctx)
           [] ctx.rule = "SuperExpression" ->
                ExpressionListener_enterSuperExpression(ctx)
           [] ctx.rule = "ArrayLiteralExpression" ->
                ExpressionListener_enterArrayLiteralExpression(ctx)
           [] OTHER -> Unset

\* An enterArrayElement that never wraps the element.
ArrayElementNeverWrapped(ctx, exprs) ==
    After(ExpressionListener(GetRule(ctx, SingleExpressionRules, 0)), LAMBDA e :
    Then(ReadAttr(e, "_expr"), LAMBDA expression : Ok(Append(exprs, expression))))

\* ArrayLiteralExpandListener.enterArrayElement: exprs with the element's
\* entry appended, or the exception.
ArrayLiteralExpandListener_enterArrayElement(ctx, exprs) ==
    After(ExpressionListener(GetRule(ctx, SingleExpressionRules, 0)), LAMBDA e :
    IF ~IsNone(GetToken(ctx, "Ellipsis"))
    THEN Then(GetSourceLocation(ctx), LAMBDA loc :
         Then(ReadAttr(e, "_expr"), LAMBDA argument :
         Ok(Append(exprs, SpreadElement(loc, argument)))))
    ELSE Then(ReadAttr(e, "_expr"), LAMBDA expression :
         Ok(Append(exprs, expression))))

\* The loop of enterElementList over ctx.arrayElement().
ArrayElementList(ctxs, exprs) ==
    IF ctxs = <<>> THEN Ok(exprs)
    ELSE Then(ArrayLiteralExpandListener_enterArrayElement(Head(ctxs), exprs),
              LAMBDA appended : ArrayElementList(Tail(ctxs), appended))

\* ArrayLiteralExpandListener.enterElementList
ArrayLiteralExpandListener_enterElementList(ctx) ==
    ArrayElementList(GetRules(ctx, {"arrayElement"}), <<>>)

\* ctx.enterRule(ArrayLiteralExpandListener())
ArrayLiteralExpandListener(ctx) ==
    IF IsNone(ctx) \/ ctx.term THEN Raise("AttributeError", "enterRule")
    ELSE IF ctx.rule = "arrayLiteral"
    THEN ArrayLiteralExpandListener(GetRule(ctx, {"elementList"}, 0))
    ELSE IF ctx.rule = "elementList"
    THEN ArrayLiteralExpandListener_enterElementList(ctx)
    ELSE IF ctx.rule = "arrayElement"
    THEN After(ExpressionListener(GetRule(ctx, SingleExpressionRules, 0)), LAMBDA e :
         IF ~IsNone(GetToken(ctx, "Ellipsis"))
         THEN Then(GetSourceLocation(ctx), LAMBDA loc : Raise("AttributeError", "_exprs"))
         ELSE Raise("AttributeError", "_exprs"))
    ELSE Unset

\* AssignableListener.enterIdentifier
AssignableListener_enterIdentifier(ctx) ==
    Then(GetSourceLocation(ctx), LAMBDA loc : Ok(Identifier(loc, GetText(ctx))))

\* An enterArrayLiteral that never expands the element list.
ArrayPatternElementsDropped(ctx) ==
    Then(GetSourceLocation(ctx), LAMBDA loc : Ok(ArrayPattern(loc, <<>>)))

\* AssignableListener.enterArrayLiteral
AssignableListener_enterArrayLiteral(ctx) ==
    Then(GetSourceLocation(ctx), LAMBDA loc :
    IF IsNone(GetRule(ctx, {"elementList"}, 0)) THEN Ok(ArrayPattern(loc, <<>>))
    ELSE Then(ReadAttr(ArrayLiteralExpandListener(GetRule(ctx, {"elementList"}, 0)), "_exprs"),
              LAMBDA expressions : Ok(ArrayPattern(loc, <<>> \o expressions))))

\* AssignableListener.enterObjectLiteral
AssignableListener_enterObjectLiteral(ctx) ==
    Raise("NotImplementedError", "ObjectLiteral assignment")

RECURSIVE AssignableListener(_)
\* ctx.enterRule(AssignableListener())
AssignableListener(ctx) ==
    IF IsNone(ctx) \/ ctx.term THEN Raise("AttributeError", "enterRule")
    ELSE IF ctx.rule = "assignable" THEN AssignableListener(GetChild(ctx, 0))
    ELSE IF ctx.rule = "identifier" THEN AssignableListener_enterIdentifier(ctx)
    ELSE IF ctx.rule = "arrayLiteral" THEN AssignableListener_enterArrayLiteral(ctx)
    ELSE IF ctx.rule = "objectLiteral" THEN AssignableListener_enterObjectLiteral(ctx)
    ELSE Unset

\* An enterVariableDeclaration that drops the initializer.
VariableDeclarationInitDropped(ctx) ==
    Then(GetSourceLocation(ctx), LAMBDA loc :
    After(AssignableListener(GetRule(ctx, {"assignable"}, 0)), LAMBDA assign :
    Then(ReadAttr(assign, "_result"), LAMBDA id :
    Ok(VariableDeclarator(loc, id, PyNone)))))

\* VariableDeclarationListener.enterVariableDeclaration
VariableDeclarationListener_enterVariableDeclaration(ctx) ==
    Then(GetSourceLocation(ctx), LAMBDA loc :
    After(AssignableListener(GetRule(ctx, {"assignable"}, 0)), LAMBDA assign :
    Then(IF IsNone(GetRule(ctx, SingleExpressionRules, 0)) THEN Ok(PyNone)
         ELSE BuiltExpression(GetRule(ctx, SingleExpressionRules, 0)), LAMBDA init :
    Then(ReadAttr(assign, "_result"), LAMBDA id :
    Ok(VariableDeclarator(loc, id, init))))))

\* ctx.enterRule(VariableDeclarationListener())
VariableDeclarationListener(ctx) ==
    IF IsNone(ctx) \/ ctx.term THEN Raise("AttributeError", "enterRule")
    ELSE IF ctx.rule = "variableDeclaration"
    THEN VariableDeclarationListener_enterVariableDeclaration(ctx)
    ELSE Unset

RECURSIVE VariableDeclaratorList(_)
\* The loop of enterVariableDeclarationList over ctx.variableDeclaration().
VariableDeclaratorList(ctxs) ==
    IF ctxs = <<>> THEN Ok(<<>>)
    ELSE Then(ReadAttr(VariableDeclarationListener(Head(ctxs)), "_var_decl"), LAMBDA d :
         Then(VariableDeclaratorList(Tail(ctxs)), LAMBDA rest : Ok(<<d>> \o rest)))

\* StatementListener.enterVariableDeclarationList
StatementListener_enterVariableDeclarationList(ctx) ==
    IF IsNone(GetRule(ctx, {"varModifier"}, 0)) THEN Raise("AttributeError", "getText")
    ELSE Then(VariableDeclaratorList(GetRules(ctx, {"variableDeclaration"})), LAMBDA var_decls :
         Then(GetSourceLocation(ctx), LAMBDA loc :
         Ok(VariableDeclaration(loc, PyStr(GetText(GetRule(ctx, {"varModifier"}, 0))),
                                var_decls))))

\* StatementListener.enterEmptyStatement
StatementListener_enterEmptyStatement(ctx) ==
    Then(GetSourceLocation(ctx), LAMBDA loc : Ok(EmptyStatement(loc)))

\* StatementListener.enterExpressionStatement
StatementListener_enterExpressionStatement(ctx) ==
    After(ExpressionListener(GetRule(ctx, {"expressionSequence"}, 0)), LAMBDA e :
    Then(GetSourceLocation(ctx), LAMBDA loc :
    Then(ReadAttr(e, "_expr"), LAMBDA expression :
    Ok(ExpressionStatement(loc, expression)))))

\* The statements whose handler only raises NotImplementedError: the rule
\* and the name the handler gives.
StatementTodo ==
    [ ifStatement |-> "IfStatement", functionDeclaration |-> "FunctionDeclaration",
      DoStatement |-> "DoWhileStatement", WhileStatement |-> "WhileStatement",
      ForStatement |-> "ForStatement", ForInStatement |-> "ForInStatement",
      continueStatement |-> "ContinueStatement",
      breakStatement |-> "BreakStatement", returnStatement |-> "ReturnStatement",
      importStatement |-> "ImportStatement",
      ExportDeclaration |-> "ExportDeclaration",
      ExportDefaultDeclaration |-> "ExportDefaultDeclaration",
      classDeclaration |-> "ClassDeclaration" ]

RECURSIVE StatementListener(_, _, _)
RECURSIVE StatementList(_)

\* The loop of enterBlock: each child is entered with a StatementListener()
\* of its own and its statement read.
StatementList(ctxs) ==
    IF ctxs = <<>> THEN Ok(<<>>)
    ELSE Then(ReadAttr(StatementListener(Head(ctxs), FALSE, FALSE), "_stmt"), LAMBDA st :
         Then(StatementList(Tail(ctxs)), LAMBDA rest : Ok(<<st>> \o rest)))

\* StatementListener.enterBlock
StatementListener_enterBlock(ctx) ==
    IF IsNone(GetRule(ctx, {"statementList"}, 0)) THEN Raise("AttributeError", "children")
    ELSE Then(StatementList(GetRule(ctx, {"statementList"}, 0).kids), LAMBDA stmt_list :
         Then(GetSourceLocation(ctx), LAMBDA loc :
         Ok(BlockStatement(loc, stmt_list))))

RECURSIVE StatementListenerFlagsEnforced(_, _, _)
\* A StatementListener that refuses break and continue outside a loop and
\* return outside a function.
StatementListenerFlagsEnforced(ctx, in_loop, in_func) ==
    IF IsNone(ctx) \/ ctx.term THEN Raise("AttributeError", "enterRule")
    ELSE IF ctx.rule = "statement"
    THEN StatementListenerFlagsEnforced(GetChild(ctx, 0), in_loop, in_func)
    ELSE IF ctx.rule \in {"breakStatement", "continueStatement"} /\ ~in_loop
    THEN Raise("SyntaxError", "outside loop")
    ELSE IF ctx.rule = "returnStatement" /\ ~in_func
    THEN Raise("SyntaxError", "outside function")
    ELSE IF ctx.rule = "block" THEN StatementListener_enterBlock(ctx)
    ELSE IF ctx.rule = "variableStatement"
    THEN StatementListenerFlagsEnforced(GetRule(ctx, {"variableDeclarationList"}, 0),
                                        in_loop, in_func)
    ELSE IF ctx.rule = "variableDeclarationList"
    THEN StatementListener_enterVariableDeclarationList(ctx)
    ELSE IF ctx.rule = "emptyStatement" THEN StatementListener_enterEmptyStatement(ctx)
    ELSE IF ctx.rule = "expressionStatement"
    THEN StatementListener_enterExpressionStatement(ctx)
    ELSE IF ctx.rule \in DOMAIN StatementTodo
    THEN Raise("NotImplementedError", StatementTodo[ctx.rule])
    ELSE Unset

\* ctx.enterRule(StatementListener(in_loop, in_func))
StatementListener(ctx, in_loop, in_func) ==
    IF IsNone(ctx) \/ ctx.term THEN Raise("AttributeError", "enterRule")
    ELSE IF ctx.rule = "statement"
    THEN StatementListener(GetChild(ctx, 0), in_loop, in_func)
    ELSE IF ctx.rule = "block" THEN StatementListener_enterBlock(ctx)
    ELSE IF ctx.rule = "variableStatement"
    THEN StatementListener(GetRule(ctx, {"variableDeclarationList"}, 0), in_loop, in_func)
    ELSE IF ctx.rule = "variableDeclarationList"
    THEN StatementListener_enterVariableDeclarationList(ctx)
    ELSE IF ctx.rule = "emptyStatement" THEN StatementListener_enterEmptyStatement(ctx)
    ELSE IF ctx.rule = "expressionStatement"
    THEN StatementListener_enterExpressionStatement(ctx)
    ELSE IF ctx.rule \in DOMAIN StatementTodo
    THEN Raise("NotImplementedError", StatementTodo[ctx.rule])
    ELSE Unset

\* SourceElementListener.enterSourceElement: elems with the statement
\* appended, or the exception.
SourceElementListener_enterSourceElement(ctx, elems) ==
    Then(ReadAttr(StatementListener(GetRule(ctx, {"statement"}, 0), FALSE, FALSE), "_stmt"),
         LAMBDA st : Ok(Append(elems, st)))

RECURSIVE SourceElementListener(_, _)
\* elem.enterRule(source_elem_listener) for each elem of ctxs, in order, on
\* one SourceElementListener whose _elems starts as elems.
SourceElementListener(ctxs, elems) ==
    IF ctxs = <<>> THEN Ok(elems)
    ELSE IF Head(ctxs).term THEN Raise("AttributeError", "enterRule")
    ELSE IF Head(ctxs).rule # "sourceElement"
    THEN SourceElementListener(Tail(ctxs), elems)
    ELSE Then(SourceElementListener_enterSourceElement(Head(ctxs), elems),
              LAMBDA appended : SourceElementListener(Tail(ctxs), appended))

\* An enterProgram that ignores the source type the listener was given.
ProgramAlwaysScript(ctx, source_type) ==
    IF IsNone(GetRule(ctx, {"sourceElements"}, 0)) THEN Raise("AttributeError", "children")
    ELSE Then(SourceElementListener(GetRule(ctx, {"sourceElements"}, 0).kids, <<>>),
              LAMBDA source_elements :
         Then(GetSourceLocation(ctx), LAMBDA loc :
         Ok(Program(loc, PyStr("script"), source_elements))))

\* ASTListener.enterProgram: the Program assigned to _program_node, or the
\* exception.
ASTListener_enterProgram(ctx, source_type) ==
    IF IsNone(GetRule(ctx, {"sourceElements"}, 0)) THEN Raise("AttributeError", "children")
    ELSE Then(SourceElementListener(GetRule(ctx, {"sourceElements"}, 0).kids, <<>>),
              LAMBDA source_elements :
         Then(GetSourceLocation(ctx), LAMBDA loc :
         Ok(Program(loc, PyStr(source_type), source_elements))))

\* ParseTreeWalker.DEFAULT.walk(ast_listener, tree): of the handlers the walk
\* calls, ASTListener overrides enterProgram alone.
Walk(tree, source_type) ==
    IF tree.rule = "program" THEN ASTListener_enterProgram(tree, source_type)
    ELSE Unset

(***************************************************************************)
(* The parse trees handed to the listeners: what the parser produces for   *)
(* small sources.                                                          *)
(***************************************************************************)
\* The text of the tokens that have one spelling.
TokenText ==
    [Plus |-> <<"+">>,
      Minus |-> <<"-">>,
      Multiply |-> <<"*">>,
      Divide |-> <<"/">>,
      Modulus |-> <<"%">>,
      Power |-> <<"*", "*">>,
      LeftShiftArithmetic |-> <<"<", "<">>,
      RightShiftArithmetic |-> <<">", ">">>,
      RightShiftLogical |-> <<">", ">", ">">>,
      LessThan |-> <<"<">>,
      LessThanEquals |-> <<"<", "=">>,
      MoreThan |-> <<">">>,
      GreaterThanEquals |-> <<">", "=">>,
      Equals_ |-> <<"=", "=">>,
      NotEquals |-> <<"!", "=">>,
      IdentityEquals |-> <<"=", "=", "=">>,
      IdentityNotEquals |-> <<"!", "=", "=">>,
      Assign |-> <<"=">>,
      MultiplyAssign |-> <<"*", "=">>,
      DivideAssign |-> <<"/", "=">>,
      ModulusAssign |-> <<"%", "=">>,
      PlusAssign |-> <<"+", "=">>,
      MinusAssign |-> <<"-", "=">>,
      LeftShiftArithmeticAssign |-> <<"<", "<", "=">>,
      RightShiftArithmeticAssign |-> <<">", ">", "=">>,
      RightShiftLogicalAssign |-> <<">", ">", ">", "=">>,
      BitAndAssign |-> <<"&", "=">>,
      BitXorAssign |-> <<"^", "=">>,
      BitOrAssign |-> <<"|", "=">>,
      PowerAssign |-> <<"*", "*", "=">>,
      PlusPlus |-> <<"+", "+">>,
      MinusMinus |-> <<"-", "-">>,
      BitNot |-> <<"~">>,
      Not |-> <<"!">>,
      Delete |-> <<"d", "e", "l", "e", "t", "e">>,
      Void |-> <<"v", "o", "i", "d">>,
      Typeof |-> <<"t", "y", "p", "e", "o", "f">>,
      Await |-> <<"a", "w", "a", "i", "t">>,
      Yield |-> <<"y", "i", "e", "l", "d">>,
      New |-> <<"n", "e", "w">>,
      Dot |-> <<".">>,
      QuestionMark |-> <<"?">>,
      Colon |-> <<":">>,
      NullCoalesce |-> <<"?", "?">>,
      Instanceof |-> <<"i", "n", "s", "t", "a", "n", "c", "e", "o", "f">>,
      In |-> <<"i", "n">>,
      BitAnd |-> <<"&">>,
      BitXOr |-> <<"^">>,
      BitOr |-> <<"|">>,
      And |-> <<"&", "&">>,
      Or |-> <<"|", "|">>,
      Import |-> <<"i", "m", "p", "o", "r", "t">>,
      Export |-> <<"e", "x", "p", "o", "r", "t">>,
      Default |-> <<"d", "e", "f", "a", "u", "l", "t">>,
      This |-> <<"t", "h", "i", "s">>,
      Super |-> <<"s", "u", "p", "e", "r">>,
      Function_ |-> <<"f", "u", "n", "c", "t", "i", "o", "n">>,
      Class |-> <<"c", "l", "a", "s", "s">>,
      OpenParen |-> <<"(">>,
      CloseParen |-> <<")">>,
      OpenBracket |-> <<"[">>,
      CloseBracket |-> <<"]">>,
      OpenBrace |-> <<"{">>,
      CloseBrace |-> <<"}">>,
      Comma |-> <<",">>,
      SemiColon |-> <<";">>,
      Ellipsis |-> <<".", ".", ".">>,
      Var |-> <<"v", "a", "r">>,
      let_ |-> <<"l", "e", "t">>,
      Const |-> <<"c", "o", "n", "s", "t">>,
      If |-> <<"i", "f">>,
      Do |-> <<"d", "o">>,
      While |-> <<"w", "h", "i", "l", "e">>,
      For |-> <<"f", "o", "r">>,
      Continue |-> <<"c", "o", "n", "t", "i", "n", "u", "e">>,
      Break |-> <<"b", "r", "e", "a", "k">>,
      Return |-> <<"r", "e", "t", "u", "r", "n">>,
      With |-> <<"w", "i", "t", "h">>,
      Switch |-> <<"s", "w", "i", "t", "c", "h">>,
      Throw |-> <<"t", "h", "r", "o", "w">>,
      Try |-> <<"t", "r", "y">>,
      Catch |-> <<"c", "a", "t", "c", "h">>,
      Debugger |-> <<"d", "e", "b", "u", "g", "g", "e", "r">>,
      NullLiteral |-> <<"n", "u", "l", "l">> ]

Kw(type) == Tk(type, TokenText[type])

\* The grave accent, the one character that has no one-character string here.
Backtick == "GRAVE"

RECURSIVE Interleave(_, _)
\* The children of a comma-separated list.
Interleave(ctxs, tok) ==
    IF Len(ctxs) <= 1 THEN ctxs
    ELSE <<Head(ctxs), tok>> \o Interleave(Tail(ctxs), tok)

\* The sequences over S of length lo..hi.
SeqsOf(S, lo, hi) == UNION { [1..k -> S] : k \in lo..hi }

IdentifierCtx(name) == Cx("identifier", <<Tk("Identifier", name)>>)
IdentifierExpr(name) == Cx("IdentifierExpression", <<IdentifierCtx(name)>>)
LiteralCtx(kid) == Cx("literal", <<kid>>)
LiteralExpr(lit) == Cx("LiteralExpression", <<lit>>)
NumericLiteralCtx(type, text) == Cx("numericLiteral", <<Tk(type, text)>>)

DecimalTexts ==
    { <<"1">>, <<"1", "0">>, <<"1", "_", "0">>, <<"2", ".", "5">>,
      <<"2", ".", "5", "0">>, <<"1", "e", "3">>, <<"1", "_">>,
      <<"0", ".", "0", "0", "0", "0", "2", "5">>,
      <<"9", "0", "0", "7", "1", "9", "9", "2", "5", "4", "7", "4", "0", "9", "9", "3">>,
      <<"1", "2", "3", "4", "5", "6", "7", "8", "9", "0", "1", "2", "3", "4", "5", "6", "7", "8">> }
StringTexts ==
    { <<"\"", "\"">>, <<"\"", "a", "\"">>, <<"'", "b", "c", "'">>,
      <<"'", "t", "y", "p", "e", ":", "'">>, <<"\"", "l", "o", "c", ":", "\"">> }
BooleanTexts == { <<"t", "r", "u", "e">>, <<"f", "a", "l", "s", "e">> }
OtherNumerics ==
    { <<"HexIntegerLiteral", <<"0", "x", "1", "F">> >>,
      <<"OctalIntegerLiteral", <<"0", "7">> >>,
      <<"OctalIntegerLiteral2", <<"0", "o", "7">> >>,
      <<"BinaryIntegerLiteral", <<"0", "b", "1">> >> }

LiteralInputs ==
    { LiteralCtx(Kw("NullLiteral")) }
    \cup { LiteralCtx(Tk("BooleanLiteral", t)) : t \in BooleanTexts }
    \cup { LiteralCtx(Tk("StringLiteral", t)) : t \in StringTexts }
    \cup { LiteralCtx(NumericLiteralCtx("DecimalLiteral", t)) : t \in DecimalTexts }
    \cup { LiteralCtx(NumericLiteralCtx(p[1], p[2])) : p \in OtherNumerics }
    \cup { LiteralCtx(Cx("bigintLiteral", <<Tk("BigDecimalIntegerLiteral", <<"1", "n">>)>>)),
           LiteralCtx(Tk("TemplateStringLiteral", <<Backtick, "x", Backtick>>)),
           LiteralCtx(Tk("RegularExpressionLiteral", <<"/", "x", "/">>)) }

ExprA == IdentifierExpr(<<"a">>)
ExprOne == LiteralExpr(LiteralCtx(NumericLiteralCtx("DecimalLiteral", <<"1">>)))
ExprSeqCtx(es) == Cx("expressionSequence", Interleave(es, Kw("Comma")))

\* One tree of each production that the Expression builder builds no node
\* for, x the operand in it.
OtherProductions ==
    { "FunctionExpression", "ClassExpression", "MemberIndexExpression",
      "MemberDotExpression", "ArgumentsExpression", "NewExpression",
      "MetaExpression", "CoalesceExpression", "InExpression",
      "InstanceofExpression", "BitAndExpression", "BitOrExpression",
      "BitXOrExpression", "LogicalAndExpression", "LogicalOrExpression",
      "TernaryExpression", "ImportExpression", "TemplateStringExpression",
      "YieldExpression", "AwaitExpression", "ObjectLiteralExpression" }

OtherExpr(rule, x) ==
    Cx(rule,
       CASE rule = "FunctionExpression" ->
              <<Cx("anoymousFunction",
                   <<Kw("Function_"), Kw("OpenParen"), Kw("CloseParen"),
                     Kw("OpenBrace"), Kw("CloseBrace")>>)>>
         [] rule = "ClassExpression" ->
              <<Kw("Class"), Cx("classTail", <<Kw("OpenBrace"), Kw("CloseBrace")>>)>>
         [] rule = "MemberIndexExpression" ->
              <<ExprA, Kw("OpenBracket"), ExprSeqCtx(<<x>>), Kw("CloseBracket")>>
         [] rule = "MemberDotExpression" ->
              <<x, Kw("Dot"), Cx("identifierName", <<IdentifierCtx(<<"b">>)>>)>>
         [] rule = "ArgumentsExpression" ->
              <<x, Cx("arguments", <<Kw("OpenParen"), Kw("CloseParen")>>)>>
         [] rule = "NewExpression" -> <<Kw("New"), x>>
         [] rule = "MetaExpression" ->
              <<Kw("New"), Kw("Dot"), IdentifierCtx(<<"t">>)>>
         [] rule = "CoalesceExpression" -> <<x, Kw("NullCoalesce"), ExprA>>
         [] rule = "InExpression" -> <<x, Kw("In"), ExprA>>
         [] rule = "InstanceofExpression" -> <<x, Kw("Instanceof"), ExprA>>
         [] rule = "BitAndExpression" -> <<x, Kw("BitAnd"), ExprA>>
         [] rule = "BitOrExpression" -> <<x, Kw("BitOr"), ExprA>>
         [] rule = "BitXOrExpression" -> <<x, Kw("BitXOr"), ExprA>>
         [] rule = "LogicalAndExpression" -> <<x, Kw("And"), ExprA>>
         [] rule = "LogicalOrExpression" -> <<x, Kw("Or"), ExprA>>
         [] rule = "TernaryExpression" ->
              <<x, Kw("QuestionMark"), ExprOne, Kw("Colon"), ExprA>>
         [] rule = "ImportExpression" ->
              <<Kw("Import"), Kw("OpenParen"), x, Kw("CloseParen")>>
         [] rule = "TemplateStringExpression" ->
              <<x, Tk("TemplateStringLiteral", <<Backtick, "x", Backtick>>)>>
         [] rule = "YieldExpression" ->
              <<Cx("yieldStatement", <<Kw("Yield"), ExprSeqCtx(<<x>>), Cx("eos", <<>>)>>)>>
         [] rule = "AwaitExpression" -> <<Kw("Await"), x>>
         [] rule = "ObjectLiteralExpression" ->
              <<Cx("objectLiteral", <<Kw("OpenBrace"), Kw("CloseBrace")>>)>>)

\* The operands of the composite expressions: a name, a number, a production
\* whose handler raises and one that has no handler.
Atoms ==
    { ExprA, ExprOne, OtherExpr("MemberDotExpression", ExprA),
      OtherExpr("TemplateStringExpression", ExprA) }

\* The update and unary productions: rule, operator token, operator first.
UnaryForms ==
    { <<"PostIncrementExpression", "PlusPlus", FALSE>>,
      <<"PostDecreaseExpression", "MinusMinus", FALSE>>,
      <<"DeleteExpression", "Delete", TRUE>>, <<"VoidExpression", "Void", TRUE>>,
      <<"TypeofExpression", "Typeof", TRUE>>,
      <<"PreIncrementExpression", "PlusPlus", TRUE>>,
      <<"PreDecreaseExpression", "MinusMinus", TRUE>>,
      <<"UnaryPlusExpression", "Plus", TRUE>>,
      <<"UnaryMinusExpression", "Minus", TRUE>>,
      <<"BitNotExpression", "BitNot", TRUE>>, <<"NotExpression", "Not", TRUE>> }
UnaryCtx(f, x) == Cx(f[1], IF f[3] THEN <<Kw(f[2]), x>> ELSE <<x, Kw(f[2])>>)

\* The binary productions with their operator tokens.
CandidateForms ==
    { <<"MultiplicativeExpression", MultiplicativeOps>>,
      <<"AdditiveExpression", AdditiveOps>>,
      <<"BitShiftExpression", BitShiftOps>>,
      <<"RelationalExpression", RelationalOps>>,
      <<"EqualityExpression", EqualityOps>> }
BinaryForms ==
    { <<"PowerExpression", "Power">>, <<"AssignmentExpression", "Assign">> }
    \cup UNION { { <<f[1], f[2][i][1]>> : i \in 1..Len(f[2]) } : f \in CandidateForms }
BinaryCtx(f, x, y) == Cx(f[1], <<x, Kw(f[2]), y>>)
AssignOpCtx(tok, x, y) ==
    Cx("AssignmentOperatorExpression",
       <<x, Cx("assignmentOperator", <<Kw(tok)>>), y>>)
AssignOpTokens == { AssignmentOps[i][1] : i \in 1..Len(AssignmentOps) }

\* A context that holds two of its production's operator tokens (the parser
\* keeps a token it skipped while recovering from an error as a child), the
\* later candidate of the table first.
TwoTokenCtxs ==
    UNION { { Cx(f[1], <<ExprA, Kw(f[2][j][1]), Kw(f[2][i][1]), ExprOne>>) :
                i \in 1..Len(f[2]), j \in 2..Len(f[2]) } : f \in CandidateForms }

MaxDepth == 1

RECURSIVE Spine(_)
\* Operands nested up to k deep.
Spine(k) ==
    IF k = 0 THEN Atoms
    ELSE Atoms
         \cup { UnaryCtx(<<"UnaryMinusExpression", "Minus", TRUE>>, x) : x \in Spine(k - 1) }
         \cup { BinaryCtx(<<"AdditiveExpression", "Plus">>, x, ExprA) : x \in Spine(k - 1) }

OperandPairs ==
    (Spine(MaxDepth) \X Atoms) \cup (Atoms \X Spine(MaxDepth))

ArrayElementCtx(spread, x) ==
    Cx("arrayElement", IF spread THEN <<Kw("Ellipsis"), x>> ELSE <<x>>)
ElementListCtx(elems) == Cx("elementList", Interleave(elems, Kw("Comma")))
ArrayLiteralCtx(elems) ==
    Cx("arrayLiteral", <<Kw("OpenBracket"), ElementListCtx(elems), Kw("CloseBracket")>>)
ArrayElements == { ArrayElementCtx(sp, x) : sp \in BOOLEAN, x \in Atoms }
ArrayLiteralInputs ==
    { ArrayLiteralCtx(es) : es \in SeqsOf(ArrayElements, 0, MaxElems) }
    \cup { ArrayLiteralCtx(<<ArrayElementCtx(sp, x)>>) : sp \in BOOLEAN, x \in Spine(MaxDepth) }

ExprSeqInputs == { ExprSeqCtx(es) : es \in SeqsOf(Atoms, 1, MaxSeq) }

Leaves ==
    { IdentifierExpr(n) : n \in { <<"a">>, <<"b", "c">> } }
    \cup { Cx("ThisExpression", <<Kw("This")>>), Cx("SuperExpression", <<Kw("Super")>>) }
    \cup { LiteralExpr(l) : l \in LiteralInputs }
    \cup { OtherExpr(r, x) : r \in OtherProductions, x \in Atoms }

ExprInputs ==
    Leaves
    \cup { UnaryCtx(f, x) : f \in UnaryForms, x \in Spine(MaxDepth) }
    \cup { BinaryCtx(f, p[1], p[2]) : f \in BinaryForms, p \in OperandPairs }
    \cup { AssignOpCtx(t, p[1], p[2]) : t \in AssignOpTokens, p \in OperandPairs }
    \cup TwoTokenCtxs
    \cup { Cx("ArrayLiteralExpression", <<a>>) : a \in ArrayLiteralInputs }
    \cup { Cx("ParenthesizedExpression",
              <<Kw("OpenParen"), s, Kw("CloseParen")>>) : s \in ExprSeqInputs }
    \cup ExprSeqInputs

\* The end of a statement: a semicolon, or nothing of the statement's own
\* (a line break, a closing brace or the end of the input follows; the
\* end-of-input token is never the stop token of a production).
Eos(semi) == Cx("eos", IF semi THEN <<Kw("SemiColon")>> ELSE <<>>)
Stmt(x) == Cx("statement", <<x>>)
EmptyStmt == Stmt(Cx("emptyStatement", <<Kw("SemiColon")>>))
ExprStmt(es, semi) == Stmt(Cx("expressionStatement", <<ExprSeqCtx(es), Eos(semi)>>))
AssignableCtx(x) == Cx("assignable", <<x>>)
VarDecl(target, init) ==
    Cx("variableDeclaration",
       IF IsNone(init) THEN <<AssignableCtx(target)>>
       ELSE <<AssignableCtx(target), Kw("Assign"), init>>)
VarModifier(tok) ==
    Cx("varModifier",
       IF tok = "let_" THEN <<Cx("let_", <<Tk("NonStrictLet", TokenText[tok])>>)>>
       ELSE <<Kw(tok)>>)
VarStmt(tok, decls, semi) ==
    Stmt(Cx("variableStatement",
            <<Cx("variableDeclarationList",
                 <<VarModifier(tok)>> \o Interleave(decls, Kw("Comma"))),
              Eos(semi)>>))
Block(stmts) ==
    Stmt(Cx("block", <<Kw("OpenBrace"), Cx("statementList", stmts), Kw("CloseBrace")>>))
EmptyBlock == Stmt(Cx("block", <<Kw("OpenBrace"), Kw("CloseBrace")>>))
Parens(x) == <<Kw("OpenParen"), ExprSeqCtx(<<x>>), Kw("CloseParen")>>

\* The statements that have a handler in no listener.
OtherStatements ==
    { "ForOfStatement", "yieldStatement", "withStatement", "labelledStatement",
      "switchStatement", "throwStatement", "tryStatement", "debuggerStatement" }

\* One tree of each statement that no node is built for.
OtherStmt(rule) ==
    Stmt(Cx(rule,
       CASE rule = "ifStatement" -> <<Kw("If")>> \o Parens(ExprA) \o <<EmptyStmt>>
         [] rule = "DoStatement" ->
              <<Kw("Do"), EmptyStmt, Kw("While")>> \o Parens(ExprA) \o <<Eos(TRUE)>>
         [] rule = "WhileStatement" -> <<Kw("While")>> \o Parens(ExprA) \o <<EmptyStmt>>
         [] rule = "ForStatement" ->
              <<Kw("For"), Kw("OpenParen"), Kw("SemiColon"), Kw("SemiColon"),
                Kw("CloseParen"), EmptyStmt>>
         [] rule = "ForInStatement" ->
              <<Kw("For"), Kw("OpenParen"), ExprA, Kw("In"), ExprSeqCtx(<<ExprA>>),
                Kw("CloseParen"), EmptyStmt>>
         [] rule = "ForOfStatement" ->
              <<Kw("For"), Kw("OpenParen"), ExprA,
                Cx("identifier", <<Tk("Identifier", <<"o", "f">>)>>),
                ExprSeqCtx(<<ExprA>>), Kw("CloseParen"), EmptyStmt>>
         [] rule = "continueStatement" -> <<Kw("Continue"), Eos(TRUE)>>
         [] rule = "breakStatement" -> <<Kw("Break"), Eos(TRUE)>>
         [] rule = "returnStatement" -> <<Kw("Return"), ExprSeqCtx(<<ExprA>>), Eos(TRUE)>>
         [] rule = "yieldStatement" -> <<Kw("Yield"), ExprSeqCtx(<<ExprA>>), Eos(TRUE)>>
         [] rule = "withStatement" -> <<Kw("With")>> \o Parens(ExprA) \o <<EmptyStmt>>
         [] rule = "labelledStatement" ->
              <<IdentifierCtx(<<"a">>), Kw("Colon"), EmptyStmt>>
         [] rule = "switchStatement" ->
              <<Kw("Switch")>> \o Parens(ExprA)
              \o <<Cx("caseBlock", <<Kw("OpenBrace"), Kw("CloseBrace")>>)>>
         [] rule = "throwStatement" -> <<Kw("Throw"), ExprSeqCtx(<<ExprA>>), Eos(TRUE)>>
         [] rule = "tryStatement" ->
              <<Kw("Try"), Cx("block", <<Kw("OpenBrace"), Kw("CloseBrace")>>),
                Cx("catchProduction",
                   <<Kw("Catch"), Cx("block", <<Kw("OpenBrace"), Kw("CloseBrace")>>)>>)>>
         [] rule = "debuggerStatement" -> <<Kw("Debugger"), Eos(TRUE)>>
         [] rule = "importStatement" ->
              <<Kw("Import"),
                Cx("importFromBlock", <<Tk("StringLiteral", <<"'", "m", "'">>), Eos(TRUE)>>)>>
         [] rule = "ExportDeclaration" ->
              <<Kw("Export"),
                Cx("declaration", <<VarStmt("Var", <<VarDecl(IdentifierCtx(<<"a">>), NoneCtx)>>, TRUE).kids[1]>>),
                Eos(FALSE)>>
         [] rule = "ExportDefaultDeclaration" ->
              <<Kw("Export"), Kw("Default"), ExprA, Eos(TRUE)>>
         [] rule = "functionDeclaration" ->
              <<Kw("Function_"), IdentifierCtx(<<"f">>), Kw("OpenParen"),
                Kw("CloseParen"), Kw("OpenBrace"), Kw("CloseBrace")>>
         [] rule = "classDeclaration" ->
              <<Kw("Class"), IdentifierCtx(<<"C">>),
                Cx("classTail", <<Kw("OpenBrace"), Kw("CloseBrace")>>)>>))

ArrayLiteralNoList == Cx("arrayLiteral", <<Kw("OpenBracket"), Kw("CloseBracket")>>)
ObjectLiteralCtx == Cx("objectLiteral", <<Kw("OpenBrace"), Kw("CloseBrace")>>)

AssignableInputs ==
    { AssignableCtx(IdentifierCtx(n)) : n \in { <<"a">>, <<"b", "c">> } }
    \cup { AssignableCtx(ArrayLiteralCtx(es)) : es \in SeqsOf(ArrayElements, 0, MaxElems) }
    \cup { AssignableCtx(ArrayLiteralNoList), AssignableCtx(ObjectLiteralCtx) }

Targets ==
    { IdentifierCtx(<<"a">>), ArrayLiteralCtx(<<>>),
      ArrayLiteralCtx(<<ArrayElementCtx(FALSE, ExprA), ArrayElementCtx(TRUE, IdentifierExpr(<<"b", "c">>))>>),
      ArrayLiteralCtx(<<ArrayElementCtx(FALSE, OtherExpr("MemberDotExpression", ExprA))>>),
      ObjectLiteralCtx }
DeclInputs ==
    { VarDecl(t, i) : t \in Targets, i \in {NoneCtx} \cup Atoms }
    \cup { VarDecl(IdentifierCtx(<<"a">>), i) : i \in Spine(MaxDepth) }
ListedDecls ==
    { VarDecl(IdentifierCtx(<<"a">>), NoneCtx), VarDecl(IdentifierCtx(<<"b", "c">>), ExprOne),
      VarDecl(ArrayLiteralCtx(<<ArrayElementCtx(FALSE, ExprA)>>), ExprA),
      VarDecl(IdentifierCtx(<<"a">>), OtherExpr("MemberDotExpression", ExprA)),
      VarDecl(ObjectLiteralCtx, ExprOne) }
VarStmts ==
    { VarStmt(m, ds, semi) :
        m \in {"Var", "let_", "Const"}, ds \in SeqsOf(ListedDecls, 1, MaxDecls),
        semi \in BOOLEAN }

ExprStmts ==
    { ExprStmt(es, semi) : es \in SeqsOf(Atoms, 1, MaxSeq), semi \in BOOLEAN }
    \cup { ExprStmt(<<x>>, TRUE) : x \in Spine(MaxDepth) }

InnerStmts ==
    { EmptyStmt, ExprStmt(<<ExprA>>, TRUE), ExprStmt(<<ExprOne, ExprA>>, FALSE),
      VarStmt("Var", <<VarDecl(IdentifierCtx(<<"a">>), ExprOne)>>, TRUE),
      OtherStmt("ifStatement") }

RECURSIVE Blocks(_)
\* Blocks nested up to k deep.
Blocks(k) ==
    IF k = 0 THEN {EmptyBlock} \cup { Block(ss) : ss \in SeqsOf(InnerStmts, 1, MaxStmts) }
    ELSE Blocks(k - 1)
         \cup { Block(<<b>>) : b \in Blocks(k - 1) }
         \cup { Block(<<EmptyStmt, b>>) : b \in Blocks(k - 1) }

StmtInputs ==
    {EmptyStmt} \cup ExprStmts \cup VarStmts \cup Blocks(MaxNest)
    \cup { OtherStmt(r) : r \in DOMAIN StatementTodo \cup OtherStatements }

RECURSIVE PlaceLines(_, _)
\* Each source element on a line of its own.
PlaceLines(elems, line) ==
    IF elems = <<>> THEN <<>>
    ELSE <<Place(Head(elems), line, 0)>> \o PlaceLines(Tail(elems), line + 1)

\* The tree of a source: the hashbang line if any, then a statement a line.
ProgramCtx(hashbang, stmts) ==
    Cx("program",
       (IF hashbang THEN <<Tk("HashBangLine", <<"#", "!", "x">>)>> ELSE <<>>)
       \o (IF stmts = <<>> THEN <<>>
           ELSE <<Cx("sourceElements",
                     PlaceLines([i \in 1..Len(stmts) |-> Cx("sourceElement", <<stmts[i]>>)],
                                IF hashbang THEN 2 ELSE 1))>>))

TopStmts ==
    InnerStmts
    \cup { EmptyBlock, Block(<<OtherStmt("breakStatement")>>),
           OtherStmt("returnStatement"), OtherStmt("debuggerStatement"),
           ExprStmt(<<OtherExpr("MemberDotExpression", ExprA)>>, TRUE),
           ExprStmt(<<LiteralExpr(LiteralCtx(NumericLiteralCtx("HexIntegerLiteral", <<"0", "x", "1", "F">>)))>>, TRUE) }

Programs ==
    { ProgramCtx(h, ss) : h \in BOOLEAN, ss \in SeqsOf(TopStmts, 0, MaxStmts) }
    \cup { ProgramCtx(h, <<b>>) : h \in BOOLEAN, b \in Blocks(MaxNest) }
    \cup { ProgramCtx(FALSE, <<OtherStmt(r)>>) : r \in DOMAIN StatementTodo }

\* The trees a listener of the lifecycle walks.
WalkTrees ==
    { ProgramCtx(FALSE, <<>>), ProgramCtx(FALSE, <<EmptyStmt>>),
      ProgramCtx(TRUE, <<ExprStmt(<<ExprA>>, TRUE), EmptyStmt>>),
      ProgramCtx(FALSE, <<OtherStmt("ifStatement")>>),
      Place(ExprStmt(<<ExprOne>>, TRUE), 1, 0) }
SourceTypes == {"script", "module"}

(***************************************************************************)
(* ast/__init__.py: to_ascii_tree.  A Python string is the sequence of its *)
(* characters; Chars gives the characters of the words the model keeps as  *)
(* one value each: field names, type tags, enumeration values and the      *)
(* constants of str() and of the tree glyphs.                              *)
(***************************************************************************)
Chars ==
    ("type" :> <<"t", "y", "p", "e">>) @@ ("loc" :> <<"l", "o", "c">>) @@
    ("start" :> <<"s", "t", "a", "r", "t">>) @@
    ("end" :> <<"e", "n", "d">>) @@
    ("sourceType" :> <<"s", "o", "u", "r", "c", "e", "T", "y", "p", "e">>) @@
    ("body" :> <<"b", "o", "d", "y">>) @@
    ("expression" :> <<"e", "x", "p", "r", "e", "s", "s", "i", "o", "n">>) @@
    ("id" :> <<"i", "d">>) @@ ("init" :> <<"i", "n", "i", "t">>) @@
    ("kind" :> <<"k", "i", "n", "d">>) @@
    ("declarations" :> <<"d", "e", "c", "l", "a", "r", "a", "t", "i", "o", "n", "s">>) @@
    ("argument" :> <<"a", "r", "g", "u", "m", "e", "n", "t">>) @@
    ("elements" :> <<"e", "l", "e", "m", "e", "n", "t", "s">>) @@
    ("operator" :> <<"o", "p", "e", "r", "a", "t", "o", "r">>) @@
    ("prefix" :> <<"p", "r", "e", "f", "i", "x">>) @@
    ("left" :> <<"l", "e", "f", "t">>) @@
    ("right" :> <<"r", "i", "g", "h", "t">>) @@
    ("expressions" :> <<"e", "x", "p", "r", "e", "s", "s", "i", "o", "n", "s">>) @@
    ("value" :> <<"v", "a", "l", "u", "e">>) @@
    ("name" :> <<"n", "a", "m", "e">>) @@
    ("Program" :> <<"P", "r", "o", "g", "r", "a", "m">>) @@
    ("EmptyStatement" :> <<"E", "m", "p", "t", "y", "S", "t", "a", "t", "e", "m", "e", "n", "t">>) @@
    ("BlockStatement" :> <<"B", "l", "o", "c", "k", "S", "t", "a", "t", "e", "m", "e", "n", "t">>) @@
    ("ExpressionStatement" :> <<"E", "x", "p", "r", "e", "s", "s", "i", "o", "n", "S", "t", "a", "t", "e", "m", "e", "n", "t">>) @@
    ("VariableDeclarator" :> <<"V", "a", "r", "i", "a", "b", "l", "e", "D", "e", "c", "l", "a", "r", "a", "t", "o", "r">>) @@
    ("VariableDeclaration" :> <<"V", "a", "r", "i", "a", "b", "l", "e", "D", "e", "c", "l", "a", "r", "a", "t", "i", "o", "n">>) @@
    ("Super" :> <<"S", "u", "p", "e", "r">>) @@
    ("SpreadElement" :> <<"S", "p", "r", "e", "a", "d", "E", "l", "e", "m", "e", "n", "t">>) @@
    ("ThisExpression" :> <<"T", "h", "i", "s", "E", "x", "p", "r", "e", "s", "s", "i", "o", "n">>) @@
    ("ArrayExpression" :> <<"A", "r", "r", "a", "y", "E", "x", "p", "r", "e", "s", "s", "i", "o", "n">>) @@
    ("UnaryExpression" :> <<"U", "n", "a", "r", "y", "E", "x", "p", "r", "e", "s", "s", "i", "o", "n">>) @@
    ("UpdateExpression" :> <<"U", "p", "d", "a", "t", "e", "E", "x", "p", "r", "e", "s", "s", "i", "o", "n">>) @@
    ("BinaryExpression" :> <<"B", "i", "n", "a", "r", "y", "E", "x", "p", "r", "e", "s", "s", "i", "o", "n">>) @@
    ("AssignmentExpression" :> <<"A", "s", "s", "i", "g", "n", "m", "e", "n", "t", "E", "x", "p", "r", "e", "s", "s", "i", "o", "n">>) @@
    ("SequenceExpression" :> <<"S", "e", "q", "u", "e", "n", "c", "e", "E", "x", "p", "r", "e", "s", "s", "i", "o", "n">>) @@
    ("Literal" :> <<"L", "i", "t", "e", "r", "a", "l">>) @@
    ("ArrayPattern" :> <<"A", "r", "r", "a", "y", "P", "a", "t", "t", "e", "r", "n">>) @@
    ("Identifier" :> <<"I", "d", "e", "n", "t", "i", "f", "i", "e", "r">>) @@
    ("script" :> <<"s", "c", "r", "i", "p", "t">>) @@
    ("module" :> <<"m", "o", "d", "u", "l", "e">>) @@
    ("None" :> <<"N", "o", "n", "e">>) @@
    ("True" :> <<"T", "r", "u", "e">>) @@
    ("False" :> <<"F", "a", "l", "s", "e">>) @@
    ("null" :> <<"n", "u", "l", "l">>) @@
    ("true" :> <<"t", "r", "u", "e">>) @@
    ("false" :> <<"f", "a", "l", "s", "e">>) @@
    (" at " :> <<" ", "a", "t", " ">>) @@ ("-" :> <<"-">>) @@
    ("+" :> <<"+">>) @@ ("!" :> <<"!">>) @@ ("~" :> <<"~">>) @@
    ("typeof" :> <<"t", "y", "p", "e", "o", "f">>) @@
    ("void" :> <<"v", "o", "i", "d">>) @@
    ("delete" :> <<"d", "e", "l", "e", "t", "e">>) @@
    ("++" :> <<"+", "+">>) @@ ("--" :> <<"-", "-">>) @@
    ("==" :> <<"=", "=">>) @@ ("!=" :> <<"!", "=">>) @@
    ("===" :> <<"=", "=", "=">>) @@ ("!==" :> <<"!", "=", "=">>) @@
    ("<" :> <<"<">>) @@ ("<=" :> <<"<", "=">>) @@ (">" :> <<">">>) @@
    (">=" :> <<">", "=">>) @@ ("<<" :> <<"<", "<">>) @@
    (">>" :> <<">", ">">>) @@ (">>>" :> <<">", ">", ">">>) @@
    ("*" :> <<"*">>) @@ ("/" :> <<"/">>) @@ ("%" :> <<"%">>) @@
    ("|" :> <<"|">>) @@ ("^" :> <<"^">>) @@ ("&" :> <<"&">>) @@
    ("instanceof" :> <<"i", "n", "s", "t", "a", "n", "c", "e", "o", "f">>) @@
    ("**" :> <<"*", "*">>) @@ ("in" :> <<"i", "n">>) @@ ("=" :> <<"=">>) @@
    ("+=" :> <<"+", "=">>) @@ ("-=" :> <<"-", "=">>) @@
    ("*=" :> <<"*", "=">>) @@ ("/=" :> <<"/", "=">>) @@
    ("%=" :> <<"%", "=">>) @@ ("<<=" :> <<"<", "<", "=">>) @@
    (">>=" :> <<">", ">", "=">>) @@ (">>>=" :> <<">", ">", ">", "=">>) @@
    ("|=" :> <<"|", "=">>) @@ ("^=" :> <<"^", "=">>) @@
    ("&=" :> <<"&", "=">>) @@ ("**=" :> <<"*", "*", "=">>) @@
    ("+-- " :> <<"+", "-", "-", " ">>) @@ ("|   " :> <<"|", " ", " ", " ">>)


RECURSIVE Digits(_)
\* str(n) of an int n >= 0
Digits(n) ==
    IF n < 10 THEN <<DigitChars[n + 1]>>
    ELSE Digits(n \div 10) \o <<DigitChars[(n % 10) + 1]>>

RECURSIVE Zeros(_)
Zeros(n) == IF n <= 0 THEN <<>> ELSE <<"0">> \o Zeros(n - 1)

\* repr of a finite float other than zero in exponent notation: the first
\* digit, the others after a ".", and an exponent of two digits or more
float_exponent(digits, exp) ==
    <<Head(digits)>> \o (IF Len(digits) > 1 THEN <<".">> \o Tail(digits) ELSE <<>>)
        \o <<"e", IF exp < 1 THEN "-" ELSE "+">>
        \o (IF exp - 1 < 10 /\ 1 - exp < 10 THEN <<"0">> ELSE <<>>)
        \o Digits(IF exp < 1 THEN 1 - exp ELSE exp - 1)

\* repr of a finite float other than zero in positional notation
float_fixed(digits, exp) ==
    IF exp <= 0 THEN <<"0", ".">> \o Zeros(0 - exp) \o digits
    ELSE IF exp >= Len(digits) THEN digits \o Zeros(exp - Len(digits)) \o <<".", "0">>
    ELSE SubSeq(digits, 1, exp) \o <<".">> \o SubSeq(digits, exp + 1, Len(digits))

\* str(x) of a float x (float_repr, format code "r"): exponent notation
\* below 1e-4 and from 1e16 on
float_str(x) ==
    IF x.kind = "nan" THEN <<"n", "a", "n">>
    ELSE (IF x.neg THEN <<"-">> ELSE <<>>)
         \o (IF x.kind = "inf" THEN <<"i", "n", "f">>
             ELSE IF x.digits = <<>> THEN <<"0", ".", "0">>
             ELSE IF x.exp <= 0 - 4 \/ x.exp > 16 THEN float_exponent(x.digits, x.exp)
             ELSE float_fixed(x.digits, x.exp))

\* Position.__str__
Position_str(p) == Digits(p.line) \o <<":">> \o Digits(p.column)

\* SourceLocation.__str__
SourceLocation_str(l) ==
    (IF l.source = PyNone THEN <<>> ELSE l.source.s \o <<":">>) \o Position_str(l.start)

\* Node.__str__
Node_str(n) ==
    Chars[n.type] \o Chars[" at "]
        \o (IF n.loc = PyNone THEN Chars["None"] ELSE SourceLocation_str(n.loc))

\* str(v): of None, bool, str and float, and the __str__ of v's class.
str(v) ==
    IF "py" \in DOMAIN v
    THEN CASE v.py = "None" -> Chars["None"]
           [] v.py = "bool" -> IF v.b THEN Chars["True"] ELSE Chars["False"]
           [] v.py = "str" -> v.s
           [] v.py = "float" -> float_str(v)
    ELSE CASE v.cls = "Position" -> Position_str(v)
           [] v.cls = "SourceLocation" -> SourceLocation_str(v)
           [] v.cls = "NullLiteral" -> Chars["null"]
           [] v.cls = "BooleanLiteral" ->
                  IF v.value.b THEN Chars["true"] ELSE Chars["false"]
           [] v.cls = "StringLiteral" -> <<"\"">> \o v.value.s \o <<"\"">>
           [] OTHER -> Node_str(v)

\* A list, which the nodes hold as a bare sequence, as to_ascii_tree gets it.
PyList(items) == [py |-> "list", items |-> items]

\* The fields whose values are lists (nodes.py: the List[...] parameters of
\* the classes the listeners build).
ListFields == {"body", "declarations", "elements", "expressions"}

\* node.fields[k]: type and sourceType are words, given by their characters.
FieldValue(node, k) ==
    IF k = "type" THEN PyStr(Chars[node.type])
    ELSE IF k = "sourceType" THEN PyStr(Chars[node.sourceType.s])
    ELSE IF k \in ListFields THEN PyList(node[k])
    ELSE node[k]

\* node.fields.keys(): of a SourceLocation and of a Node
FieldKeys(node) == IF node.cls = "SourceLocation" THEN <<"start", "end">> ELSE node.keys

\* children of to_ascii_tree: None, or the (child_name, child_value) pairs,
\* child_name as the text it is printed as.
Children(node) ==
    IF "py" \in DOMAIN node
    THEN IF node.py = "list"
         THEN Ok([i \in 1..Len(node.items) |->
                    [name |-> Digits(i - 1), value |-> node.items[i]]])
         ELSE Unset
    ELSE IF node.cls = "Position" THEN Unset
    ELSE Ok([i \in 1..Len(FieldKeys(node)) |->
               [name |-> Chars[FieldKeys(node)[i]],
                value |-> FieldValue(node, FieldKeys(node)[i])]])

RECURSIVE Repeat(_, _)
\* s * n
Repeat(s, n) == IF n <= 0 THEN <<>> ELSE s \o Repeat(s, n - 1)

\* NODE_BLACKLIST
NODE_BLACKLIST(ast_format) ==
    IF ast_format = "short" THEN {Chars["loc"], Chars["type"]} ELSE {}

\* An own line that takes one "|   " for each level, the entry's included.
OwnLineNestedPerLevel(node, name_prefix, nesting_lvl) ==
    LET value == IF "py" \in DOMAIN node /\ node.py = "list" THEN <<>>
                 ELSE IF "py" \in DOMAIN node /\ node.py = "enum"
                 THEN Chars[node.value]
                 ELSE str(node)
    IN  Repeat(Chars["|   "], nesting_lvl)
            \o Repeat(Chars["+-- "], IF nesting_lvl > 0 THEN 1 ELSE 0)
            \o name_prefix
            \o (IF value # <<>> /\ name_prefix # <<>> THEN <<" ">> ELSE <<>>)
            \o value \o <<"\n">>

\* The first line of to_ascii_tree's result.
OwnLine(node, name_prefix, nesting_lvl) ==
    LET value == IF "py" \in DOMAIN node /\ node.py = "list" THEN <<>>
                 ELSE IF "py" \in DOMAIN node /\ node.py = "enum"
                 THEN Chars[node.value]
                 ELSE str(node)
    IN  Repeat(Chars["|   "], nesting_lvl - 1)
            \o Repeat(Chars["+-- "], IF nesting_lvl > 0 THEN 1 ELSE 0)
            \o name_prefix
            \o (IF value # <<>> /\ name_prefix # <<>> THEN <<" ">> ELSE <<>>)
            \o value \o <<"\n">>

\* Of the outcomes of the nested calls, the exception of the first that raised.
FirstRaised(outcomes) ==
    outcomes[CHOOSE i \in 1..Len(outcomes) :
                 ~outcomes[i].ok /\ \A j \in 1..(i - 1) : outcomes[j].ok]

RECURSIVE Joined(_)
\* The strings the nested calls returned, one after the other.
Joined(outcomes) ==
    IF outcomes = <<>> THEN <<>>
    ELSE Head(outcomes).val.s \o Joined(Tail(outcomes))

\* What a call returns whose own line is own and whose nested calls ended as
\* below: the exception of a nested call, or the lines one after the other.
Rendered(own, below) ==
    IF \E i \in 1..Len(below) : ~below[i].ok
    THEN FirstRaised(below)
    ELSE Ok(PyStr(own \o Joined(below)))

RECURSIVE to_ascii_tree_LevelDown(_, _, _, _)
\* A to_ascii_tree that renders the children at nesting_lvl - 1.
to_ascii_tree_LevelDown(node, name_prefix, nesting_lvl, ast_format) ==
    IF nesting_lvl < 0 THEN Raise("ValueError", "Nesting level can't be below 0")
    ELSE LET children == Children(node)
             RECURSIVE Entries(_)
             Entries(i) ==
                 IF i > Len(children.val) THEN <<>>
                 ELSE (IF children.val[i].name \in NODE_BLACKLIST(ast_format) THEN <<>>
                       ELSE <<to_ascii_tree_LevelDown(children.val[i].value,
                                  children.val[i].name \o <<":">>, nesting_lvl - 1,
                                  ast_format)>>)
                      \o Entries(i + 1)
         IN  Rendered(OwnLine(node, name_prefix, nesting_lvl),
                      IF children.set THEN Entries(1) ELSE <<>>)

RECURSIVE AsciiTreeShortOnlyAtRoot(_, _, _, _)
\* A to_ascii_tree that renders the children with the default ast_format.
AsciiTreeShortOnlyAtRoot(node, name_prefix, nesting_lvl, ast_format) ==
    IF nesting_lvl < 0 THEN Raise("ValueError", "Nesting level can't be below 0")
    ELSE LET children == Children(node)
             RECURSIVE Entries(_)
             Entries(i) ==
                 IF i > Len(children.val) THEN <<>>
                 ELSE (IF children.val[i].name \in NODE_BLACKLIST(ast_format) THEN <<>>
                       ELSE <<AsciiTreeShortOnlyAtRoot(children.val[i].value,
                                  children.val[i].name \o <<":">>, nesting_lvl + 1,
                                  "full")>>)
                      \o Entries(i + 1)
         IN  Rendered(OwnLine(node, name_prefix, nesting_lvl),
                      IF children.set THEN Entries(1) ELSE <<>>)

RECURSIVE to_ascii_tree(_, _, _, _)
\* to_ascii_tree(node, name_prefix, nesting_lvl, ast_format): the string, or
\* the exception of the call or of a nested call.
to_ascii_tree(node, name_prefix, nesting_lvl, ast_format) ==
    IF nesting_lvl < 0 THEN Raise("ValueError", "Nesting level can't be below 0")
    ELSE LET children == Children(node)
             RECURSIVE Entries(_)
             Entries(i) ==
                 IF i > Len(children.val) THEN <<>>
                 ELSE (IF children.val[i].name \in NODE_BLACKLIST(ast_format) THEN <<>>
                       ELSE <<to_ascii_tree(children.val[i].value,
                                  children.val[i].name \o <<":">>, nesting_lvl + 1,
                                  ast_format)>>)
                      \o Entries(i + 1)
         IN  Rendered(OwnLine(node, name_prefix, nesting_lvl),
                      IF children.set THEN Entries(1) ELSE <<>>)

\* The string a call of to_ascii_tree returns.
AsciiTree(node, name_prefix, nesting_lvl, ast_format) ==
    to_ascii_tree(node, name_prefix, nesting_lvl, ast_format).val.s

(***************************************************************************)
(* The state machine.  op is the operation whose result out holds ("idle"  *)
(* between operations), input its parse tree and args its other arguments. *)
(* astl is the ASTListener a client holds, with the trees it has walked.   *)
(* builds is the from_parse_tree calls a client has made one after         *)
(* another, each with its tree and its outcome.                            *)
(***************************************************************************)
MaxWalks == 2

NoListener == [live |-> FALSE, source_type |-> "", set |-> FALSE, node |-> PyNone, walked |-> <<>>]

\* ASTListener.__init__: the second definition of __init__ is the one the
\* class keeps, and it assigns _source_type alone.
ASTListener_init(source_type) ==
    [live |-> TRUE, source_type |-> source_type, set |-> FALSE, node |-> PyNone,
     walked |-> <<>>]

\* ASTListener.program_node
ASTListener_program_node(l) ==
    IF ~l.set THEN Raise("AttributeError", "_program_node")
    ELSE IF l.node = PyNone
    THEN Raise("ValueError", "Program AST node is None, did you run the listener?")
    ELSE Ok(l.node)

\* The listener after a walk of tree that ended as w.
ASTListener_walked(l, w, tree) ==
    [l EXCEPT !.set = IF w.ok /\ w.set THEN TRUE ELSE @,
              !.node = IF w.ok /\ w.set THEN w.val ELSE @,
              !.walked = Append(@, tree)]

\* from_parse_tree(tree)
from_parse_tree(tree) ==
    After(Walk(tree, ASTListener_init("script").source_type), LAMBDA w :
    ASTListener_program_node(ASTListener_walked(ASTListener_init("script"), w, tree)))

Init ==
    /\ op = "idle"
    /\ input = NoneCtx
    /\ args = <<>>
    /\ out = Unset
    /\ astl = NoListener
    /\ builds = <<>>

Call(name, ctx, a, result) ==
    /\ op' = name
    /\ input' = ctx
    /\ args' = a
    /\ out' = result

\* listener = LiteralListener(); ctx.enterRule(listener); listener.literal
RunLiteralListener ==
    /\ op = "idle"
    /\ astl = NoListener
    /\ builds = <<>>
    /\ \E c \in LiteralInputs :
           Call("LiteralListener", Place(c, 1, 0), <<>>,
                ReadAttr(LiteralListener(Place(c, 1, 0)), "_literal"))
    /\ UNCHANGED <<astl, builds>>

\* listener = ExpressionListener(); ctx.enterRule(listener); listener.expression
RunExpressionListener ==
    /\ op = "idle"
    /\ astl = NoListener
    /\ builds = <<>>
    /\ \E c \in ExprInputs :
           Call("ExpressionListener", Place(c, 1, 0), <<>>, BuiltExpression(Place(c, 1, 0)))
    /\ UNCHANGED <<astl, builds>>

\* listener = ArrayLiteralExpandListener(); ctx.enterRule(listener); listener.expressions
RunArrayLiteralExpandListener ==
    /\ op = "idle"
    /\ astl = NoListener
    /\ builds = <<>>
    /\ \E c \in ArrayLiteralInputs :
           Call("ArrayLiteralExpandListener", Place(c, 1, 0), <<>>,
                ReadAttr(ArrayLiteralExpandListener(Place(c, 1, 0)), "_exprs"))
    /\ UNCHANGED <<astl, builds>>

\* listener = AssignableListener(); ctx.enterRule(listener); listener.result
RunAssignableListener ==
    /\ op = "idle"
    /\ astl = NoListener
    /\ builds = <<>>
    /\ \E c \in AssignableInputs :
           Call("AssignableListener", Place(c, 1, 0), <<>>,
                ReadAttr(AssignableListener(Place(c, 1, 0)), "_result"))
    /\ UNCHANGED <<astl, builds>>

\* listener = VariableDeclarationListener(); ctx.enterRule(listener);
\* listener.var_declarator
RunVariableDeclarationListener ==
    /\ op = "idle"
    /\ astl = NoListener
    /\ builds = <<>>
    /\ \E c \in DeclInputs :
           Call("VariableDeclarationListener", Place(c, 1, 0), <<>>,
                ReadAttr(VariableDeclarationListener(Place(c, 1, 0)), "_var_decl"))
    /\ UNCHANGED <<astl, builds>>

\* listener = StatementListener(in_loop, in_func); ctx.enterRule(listener);
\* listener.statement
RunStatementListener ==
    /\ op = "idle"
    /\ astl = NoListener
    /\ builds = <<>>
    /\ \E c \in StmtInputs, in_loop \in BOOLEAN, in_func \in BOOLEAN :
           Call("StatementListener", Place(c, 1, 0), <<in_loop, in_func>>,
                ReadAttr(StatementListener(Place(c, 1, 0), in_loop, in_func), "_stmt"))
    /\ UNCHANGED <<astl, builds>>

\* The lines and columns a Position is constructed with.
MaxCoord == 2
Coords == (0 - 1)..MaxCoord

\* nodes.Position(line, column)
RunPosition ==
    /\ op = "idle"
    /\ astl = NoListener
    /\ builds = <<>>
    /\ \E line \in Coords, column \in Coords :
           Call("Position", NoneCtx, <<line, column>>, Position(line, column))
    /\ UNCHANGED <<astl, builds>>

\* from_parse_tree(tree)
FromParseTree ==
    /\ op = "idle"
    /\ astl = NoListener
    /\ builds = <<>>
    /\ \E tree \in Programs : Call("from_parse_tree", tree, <<>>, from_parse_tree(tree))
    /\ UNCHANGED <<astl, builds>>

\* The from_parse_tree calls a client makes one after another.
MaxBuilds == 3

\* The outcome of a from_parse_tree(tree) whose SourceElementListener begins
\* with the statements elems.
BuildOnto(tree, elems) ==
    IF tree.rule = "program" /\ ~IsNone(GetRule(tree, {"sourceElements"}, 0))
    THEN Then(SourceElementListener(GetRule(tree, {"sourceElements"}, 0).kids, elems),
              LAMBDA source_elements :
         Then(GetSourceLocation(tree), LAMBDA loc :
         Ok(Program(loc, PyStr("script"), source_elements))))
    ELSE from_parse_tree(tree)

\* The body of the latest Program among the builds bs (none: no statement).
LatestBody(bs) ==
    IF \A i \in 1..Len(bs) : ~bs[i].out.ok THEN <<>>
    ELSE bs[CHOOSE i \in 1..Len(bs) :
              bs[i].out.ok /\ \A j \in 1..Len(bs) : bs[j].out.ok => j <= i].out.val.body

\* A from_parse_tree whose SourceElementListener keeps its list of
\* statements from one build to the next (a list held by the class).
FromParseTreeSharedElements ==
    /\ op = "idle"
    /\ astl = NoListener
    /\ Len(builds) < MaxBuilds
    /\ \E tree \in WalkTrees :
           /\ Call("from_parse_tree", tree, <<>>, BuildOnto(tree, LatestBody(builds)))
           /\ builds' = Append(builds, [tree |-> tree, out |-> out'])
    /\ UNCHANGED astl

\* from_parse_tree(tree), one call after another in one process: each call
\* constructs its own ASTListener.
FromParseTreeInSequence ==
    /\ op = "idle"
    /\ astl = NoListener
    /\ Len(builds) < MaxBuilds
    /\ \E tree \in WalkTrees :
           /\ Call("from_parse_tree", tree, <<>>, from_parse_tree(tree))
           /\ builds' = Append(builds, [tree |-> tree, out |-> out'])
    /\ UNCHANGED astl

\* The client is done with its builds.
EndBuilds ==
    /\ op = "idle"
    /\ builds # <<>>
    /\ builds' = <<>>
    /\ UNCHANGED <<op, input, args, out, astl>>

\* The calls made: name_prefix, nesting_lvl and ast_format.  The first two
\* are those of __main__ and of the test suite, the next one that of an
\* entry one level down, the last two a level below the root.
RenderCalls ==
    { << <<>>, 0, "full" >>, << <<>>, 0, "short" >>,
      << <<"x", ":">>, 1, "full" >>,
      << <<>>, 0 - 1, "full" >>, << <<>>, 0 - 1, "short" >> }

\* The operations whose result is a node.
NodeOps == {"LiteralListener", "from_parse_tree"}

\* to_ascii_tree(node, name_prefix, nesting_lvl, ast_format) of the node the
\* client has got, as __main__ and the test suite call it.
RunToAsciiTree ==
    /\ op \in NodeOps
    /\ out.ok
    /\ out.set
    /\ astl = NoListener
    /\ builds = <<>>
    /\ \E c \in RenderCalls :
           Call("to_ascii_tree", input, <<out.val, c[1], c[2], c[3]>>,
                to_ascii_tree(out.val, c[1], c[2], c[3]))
    /\ UNCHANGED <<astl, builds>>

\* node = cls(...); list(node.fields.keys())
RunNodeFields ==
    /\ op = "idle"
    /\ astl = NoListener
    /\ builds = <<>>
    /\ \E cls \in ConcreteClasses :
           Call("fields", NoneCtx, <<cls>>, Ok(FieldsOf(cls)))
    /\ UNCHANGED <<astl, builds>>

\* The node classes the client constructs from operand nodes: the generated
\* classes, and some of the written ones.
OneOperandClasses ==
    DOMAIN UnaryClassOperator \cup DOMAIN UpdateClassOperator
        \cup {"SpreadElement", "ExpressionStatement"}
TwoOperandClasses ==
    DOMAIN BinaryClassOperator \cup AssignmentClasses \cup LogicalClasses
        \cup {"VariableDeclarator", "MetaProperty"}
Operands == { Identifier(PyNone, <<"a">>), Identifier(PyNone, <<"b">>) }
Locs == { PyNone, SourceLocation(PyNone, Position(1, 0).val, Position(1, 1).val) }

\* cls(loc, *xs)
NewNode(cls, loc, xs) ==
    CASE cls \in DOMAIN UnaryClassOperator -> GeneratedUnaryExpression(cls, loc, xs[1])
      [] cls \in DOMAIN UpdateClassOperator -> GeneratedUpdateExpression(cls, loc, xs[1])
      [] cls \in DOMAIN BinaryClassOperator ->
             GeneratedBinaryExpression(cls, loc, xs[1], xs[2])
      [] cls \in AssignmentClasses ->
             GeneratedAssignmentExpression(cls, loc, xs[1], xs[2])
      [] cls \in LogicalClasses -> GeneratedLogicalExpression(cls, loc, xs[1], xs[2])
      [] cls = "SpreadElement" -> SpreadElement(loc, xs[1])
      [] cls = "ExpressionStatement" -> ExpressionStatement(loc, xs[1])
      [] cls = "VariableDeclarator" -> VariableDeclarator(loc, xs[1], xs[2])
      [] cls = "MetaProperty" -> MetaProperty(loc, xs[1], xs[2])

\* node = cls(loc, *xs)
RunNewNode ==
    /\ op = "idle"
    /\ astl = NoListener
    /\ builds = <<>>
    /\ \E cls \in OneOperandClasses \cup TwoOperandClasses, loc \in Locs :
       \E xs \in [1..(IF cls \in OneOperandClasses THEN 1 ELSE 2) -> Operands] :
           Call("new", NoneCtx, <<cls, loc>> \o xs, Ok(NewNode(cls, loc, xs)))
    /\ UNCHANGED <<astl, builds>>

\* ast_listener = ASTListener(source_type)
NewASTListener ==
    \E source_type \in SourceTypes :
        /\ op = "idle"
        /\ astl = NoListener
        /\ builds = <<>>
        /\ astl' = ASTListener_init(source_type)
        /\ UNCHANGED <<op, input, args, out, builds>>

\* The walk that ended as w: its exception, or None and the listener changed.
Walked(tree, w) ==
    /\ Call("walk", tree, <<>>, IF w.ok THEN Ok(PyNone) ELSE w)
    /\ astl' = ASTListener_walked(astl, w, tree)
    /\ UNCHANGED builds

\* ParseTreeWalker.DEFAULT.walk(ast_listener, tree)
WalkTree ==
    /\ op = "idle"
    /\ astl.live
    /\ Len(astl.walked) < MaxWalks
    /\ \E tree \in WalkTrees : Walked(tree, Walk(tree, astl.source_type))

\* ast_listener.program_node
ReadProgramNode ==
    /\ op = "idle"
    /\ astl.live
    /\ Call("program_node", NoneCtx, <<>>, ASTListener_program_node(astl))
    /\ UNCHANGED <<astl, builds>>

\* The client lets go of its listener.
DropASTListener ==
    /\ op = "idle"
    /\ astl.live
    /\ astl' = NoListener
    /\ UNCHANGED <<op, input, args, out, builds>>

\* The client takes the result, or the exception, of the operation.
Return ==
    /\ op # "idle"
    /\ op' = "idle"
    /\ input' = NoneCtx
    /\ args' = <<>>
    /\ out' = Unset
    /\ UNCHANGED <<astl, builds>>

Next ==
    \/ RunLiteralListener
    \/ RunExpressionListener
    \/ RunArrayLiteralExpandListener
    \/ RunAssignableListener
    \/ RunVariableDeclarationListener
    \/ RunStatementListener
    \/ RunPosition
    \/ RunToAsciiTree
    \/ RunNodeFields
    \/ RunNewNode
    \/ FromParseTree
    \/ FromParseTreeInSequence
    \/ EndBuilds
    \/ NewASTListener
    \/ WalkTree
    \/ ReadProgramNode
    \/ DropASTListener
    \/ Return

Spec == Init /\ [][Next]_vars

(***************************************************************************)
(* Properties.  UnsupportedFeature of the specification is Python's        *)
(* NotImplementedError.                                                    *)
(***************************************************************************)
\* The statement contexts of a program, in source order.
TopStatements(tree) ==
    LET elems == GetRule(tree, {"sourceElements"}, 0)
    IN  IF IsNone(elems) THEN <<>>
        ELSE [i \in 1..Len(elems.kids) |-> GetRule(elems.kids[i], {"statement"}, 0)]

\* The statement contexts of a block, in source order.
BlockStatements(block) ==
    IF IsNone(GetRule(block, {"statementList"}, 0)) THEN <<>>
    ELSE GetRule(block, {"statementList"}, 0).kids

\* An expression every builder supports: a name or a decimal number.
PlainExpression(e) ==
    \/ e.rule = "IdentifierExpression"
    \/ /\ e.rule = "LiteralExpression"
       /\ GetChild(GetChild(e, 0), 0).rule = "numericLiteral"
       /\ ~IsNone(GetToken(GetChild(GetChild(e, 0), 0), "DecimalLiteral"))

PlainDeclaration(d) ==
    /\ GetChild(GetRule(d, {"assignable"}, 0), 0).rule = "identifier"
    /\ \/ IsNone(GetRule(d, SingleExpressionRules, 0))
       \/ PlainExpression(GetRule(d, SingleExpressionRules, 0))

RECURSIVE SupportedStatement(_)
\* A statement made of supported constructs alone.
SupportedStatement(st) ==
    LET c == GetChild(st, 0)
    IN  CASE c.rule = "emptyStatement" -> TRUE
          [] c.rule = "expressionStatement" ->
               LET singles == GetRules(GetRule(c, {"expressionSequence"}, 0),
                                       SingleExpressionRules)
               IN  \A i \in 1..Len(singles) : PlainExpression(singles[i])
          [] c.rule = "variableStatement" ->
               LET decls == GetRules(GetRule(c, {"variableDeclarationList"}, 0),
                                     {"variableDeclaration"})
               IN  \A i \in 1..Len(decls) : PlainDeclaration(decls[i])
          [] c.rule = "block" ->
               \A i \in 1..Len(BlockStatements(c)) : SupportedStatement(BlockStatements(c)[i])
          [] OTHER -> FALSE

RECURSIVE OnlyUnsupported(_, _)
\* The statements are supported but for one statement of the kind of rule,
\* itself one of them or nested in a block that is one of them.
OnlyUnsupported(stmts, rule) ==
    \E i \in 1..Len(stmts) :
        /\ \A j \in 1..Len(stmts) : j # i => SupportedStatement(stmts[j])
        /\ \/ GetChild(stmts[i], 0).rule = rule
           \/ /\ GetChild(stmts[i], 0).rule = "block"
              /\ OnlyUnsupported(BlockStatements(GetChild(stmts[i], 0)), rule)

\* C1 as stated: building a program whose only unsupported construct is an
\* if, while, do-while, for or for-in statement, a function or class
\* declaration, an import or export declaration or a return, break or
\* continue statement, at top level or nested in a block, fails with
\* UnsupportedFeature naming that statement kind, and returns no Program.
C1_AsStated ==
    (op = "from_parse_tree") =>
        \A rule \in DOMAIN StatementTodo :
            OnlyUnsupported(TopStatements(input), rule) =>
                out = Raise("NotImplementedError", StatementTodo[rule])

RECURSIVE SequenceOfEach(_, _)
\* The node built from statement st has, where st is or holds an expression
\* statement, a SequenceExpression with one element per expression, in order.
SequenceOfEach(st, node) ==
    LET c == GetChild(st, 0)
    IN  CASE c.rule = "expressionStatement" ->
               LET singles == GetRules(GetRule(c, {"expressionSequence"}, 0),
                                       SingleExpressionRules)
               IN  /\ node.cls = "ExpressionStatement"
                   /\ node.expression.cls = "SequenceExpression"
                   /\ Len(node.expression.expressions) = Len(singles)
                   /\ \A i \in 1..Len(singles) :
                          node.expression.expressions[i] = BuiltExpression(singles[i]).val
          [] c.rule = "block" ->
               /\ node.cls = "BlockStatement"
               /\ Len(node.body) = Len(BlockStatements(c))
               /\ \A i \in 1..Len(node.body) :
                      SequenceOfEach(BlockStatements(c)[i], node.body[i])
          [] OTHER -> TRUE

\* C2: the expression of every ExpressionStatement built is a
\* SequenceExpression with exactly one element per comma-separated single
\* expression, in source order; a single bare expression gives a sequence of
\* one element, never the bare expression.
C2_SequenceAlways ==
    /\ (op = "StatementListener" /\ out.ok) => SequenceOfEach(input, out.val)
    /\ (op = "from_parse_tree" /\ out.ok) =>
           /\ Len(out.val.body) = Len(TopStatements(input))
           /\ \A i \in 1..Len(out.val.body) :
                  SequenceOfEach(TopStatements(input)[i], out.val.body[i])

\* A statement with a single bare expression was built into a sequence of one.
C2_Witness ==
    /\ op = "StatementListener"
    /\ out.ok
    /\ GetChild(input, 0).rule = "expressionStatement"
    /\ Len(GetRules(GetRule(GetChild(input, 0), {"expressionSequence"}, 0),
                    SingleExpressionRules)) = 1
    /\ out.val.expression.cls = "SequenceExpression"
    /\ Len(out.val.expression.expressions) = 1
    /\ out.val.expression.expressions[1].cls = "Identifier"

\* The candidate tokens of the binary productions, in table order, with the
\* operator of each.
Candidates ==
    [ MultiplicativeExpression |->
        << <<"Multiply", "*">>, <<"Divide", "/">>, <<"Modulus", "%">> >>,
      AdditiveExpression |-> << <<"Plus", "+">>, <<"Minus", "-">> >>,
      BitShiftExpression |->
        << <<"LeftShiftArithmetic", "<<">>, <<"RightShiftArithmetic", ">>">>,
           <<"RightShiftLogical", ">>>">> >>,
      RelationalExpression |->
        << <<"LessThan", "<">>, <<"LessThanEquals", "<=">>, <<"MoreThan", ">">>,
           <<"GreaterThanEquals", ">=">> >>,
      EqualityExpression |->
        << <<"Equals_", "==">>, <<"NotEquals", "!=">>, <<"IdentityEquals", "===">>,
           <<"IdentityNotEquals", "!==">> >> ]

\* The candidates of ctx whose token accessor is not None.
NonNull(ctx) ==
    { i \in 1..Len(Candidates[ctx.rule]) :
        \E k \in 1..Len(ctx.kids) :
            ctx.kids[k].term /\ ctx.kids[k].rule = Candidates[ctx.rule][i][1] }

\* C3: for the multiplicative, additive, bit-shift, relational and equality
\* productions the BinaryExpression built has the operator of the first
\* candidate, in table order, whose token is present (of the one candidate when
\* there is exactly one), left built from the first operand and right from the
\* second.
C3_FirstCandidate ==
    (op = "ExpressionListener" /\ input.rule \in DOMAIN Candidates) =>
        LET left == BuiltExpression(GetRule(input, SingleExpressionRules, 0))
            right == BuiltExpression(GetRule(input, SingleExpressionRules, 1))
            first == CHOOSE i \in NonNull(input) : \A j \in NonNull(input) : i <= j
        IN  IF left.ok /\ right.ok /\ NonNull(input) # {}
            THEN /\ out.ok
                 /\ out.val.type = "BinaryExpression"
                 /\ out.val.operator.value = Candidates[input.rule][first][2]
                 /\ out.val.left = left.val
                 /\ out.val.right = right.val
            ELSE ~out.ok

\* A subtraction a - 1 was built: one candidate, its operator "-".
C3_Witness ==
    /\ op = "ExpressionListener"
    /\ input.rule = "AdditiveExpression"
    /\ NonNull(input) = {2}
    /\ out.ok
    /\ out.val.operator.value = "-"
    /\ out.val.left.cls = "Identifier"
    /\ out.val.right.cls = "NumericLiteral"

\* The operator of each assignment token.
AssignmentTokens ==
    [ Assign |-> "=", MultiplyAssign |-> "*=", DivideAssign |-> "/=",
      ModulusAssign |-> "%=", PlusAssign |-> "+=", MinusAssign |-> "-=",
      LeftShiftArithmeticAssign |-> "<<=", RightShiftArithmeticAssign |-> ">>=",
      RightShiftLogicalAssign |-> ">>>=", BitAndAssign |-> "&=",
      BitXorAssign |-> "^=", BitOrAssign |-> "|=", PowerAssign |-> "**=" ]

\* The operator token of an assignment production.
AssignmentToken(ctx) ==
    IF ctx.rule = "AssignmentExpression" THEN "Assign"
    ELSE GetChild(GetRule(ctx, {"assignmentOperator"}, 0), 0).rule

\* C4: a simple assignment gives an AssignmentExpression with operator "=",
\* a compound assignment one with the operator of its token; left is built
\* from the first operand and right from the second.
C4_AssignmentOperator ==
    (op = "ExpressionListener"
        /\ input.rule \in {"AssignmentExpression", "AssignmentOperatorExpression"}) =>
        LET left == BuiltExpression(GetRule(input, SingleExpressionRules, 0))
            right == BuiltExpression(GetRule(input, SingleExpressionRules, 1))
        IN  IF left.ok /\ right.ok
            THEN /\ out.ok
                 /\ out.val.type = "AssignmentExpression"
                 /\ out.val.operator.value = AssignmentTokens[AssignmentToken(input)]
                 /\ out.val.left = left.val
                 /\ out.val.right = right.val
            ELSE ~out.ok

\* A remainder assignment a %= 1 was built with the operator "%=".
C4_Witness ==
    /\ op = "ExpressionListener"
    /\ input.rule = "AssignmentOperatorExpression"
    /\ AssignmentToken(input) = "ModulusAssign"
    /\ out.ok
    /\ out.val.operator.value = "%="
    /\ out.val.left.cls = "Identifier"
    /\ out.val.right.cls = "NumericLiteral"

\* node is a Program of the source type whose body is the statements of the
\* source elements of tree, one each, in order.
ProgramOf(tree, source_type, node) ==
    /\ node.cls = "Program"
    /\ node.sourceType = PyStr(source_type)
    /\ Len(node.body) = Len(TopStatements(tree))
    /\ \A i \in 1..Len(node.body) :
           node.body[i] = ReadAttr(StatementListener(TopStatements(tree)[i], FALSE, FALSE),
                                   "_stmt").val

\* C5: the Program of a successful build holds the source type the caller
\* supplied ("script" when none) and as body the top-level statements, one
\* per source element, in source order; a hashbang line adds no element.
C5_ProgramRoot ==
    /\ (op = "from_parse_tree" /\ out.ok) => ProgramOf(input, "script", out.val)
    /\ (op = "walk" /\ out.ok /\ input.rule = "program") =>
           /\ astl.set
           /\ ProgramOf(input, astl.source_type, astl.node)

\* A listener made for a module walked a source of a hashbang line and two
\* statements.
C5_Witness ==
    /\ op = "walk"
    /\ out.ok
    /\ astl.source_type = "module"
    /\ ~IsNone(GetToken(input, "HashBangLine"))
    /\ astl.set
    /\ astl.node.sourceType = PyStr("module")
    /\ Len(astl.node.body) = 2

\* C6: a variable statement builds a VariableDeclaration whose kind is the
\* text of the modifier ("var", "let" or "const") and whose declarations are
\* one VariableDeclarator per declared variable, in source order, each with
\* the id built from its assignable target and as init the built
\* initializer, or None exactly when there is no initializer.
C6_VariableDeclaration ==
    (op = "StatementListener" /\ out.ok /\ GetChild(input, 0).rule = "variableStatement") =>
        LET list == GetRule(GetChild(input, 0), {"variableDeclarationList"}, 0)
            decls == GetRules(list, {"variableDeclaration"})
        IN  /\ out.val.cls = "VariableDeclaration"
            /\ out.val.kind = PyStr(GetText(GetRule(list, {"varModifier"}, 0)))
            /\ out.val.kind.s \in {TokenText.Var, TokenText.let_, TokenText.Const}
            /\ Len(out.val.declarations) = Len(decls)
            /\ \A i \in 1..Len(decls) :
                   LET d == out.val.declarations[i]
                       single == GetRule(decls[i], SingleExpressionRules, 0)
                   IN  /\ d.cls = "VariableDeclarator"
                       /\ d.id = ReadAttr(AssignableListener(GetRule(decls[i], {"assignable"}, 0)),
                                          "_result").val
                       /\ (d.init = PyNone) <=> IsNone(single)
                       /\ ~IsNone(single) => d.init = BuiltExpression(single).val

\* let with two declarators was built, the first without an initializer and
\* the second with one.
C6_Witness ==
    /\ op = "StatementListener"
    /\ out.ok
    /\ GetChild(input, 0).rule = "variableStatement"
    /\ out.val.kind = PyStr(TokenText.let_)
    /\ Len(out.val.declarations) = 2
    /\ out.val.declarations[1].init = PyNone
    /\ out.val.declarations[2].init # PyNone
    /\ out.val.declarations[2].id.cls = "Identifier"

\* C7 as stated: the Literal builder maps a null token to NullLiteral, a
\* boolean token to BooleanLiteral, true exactly when the text is "true", a
\* string token to StringLiteral of the text without its first and last
\* character, and a numeric literal, decimal, hexadecimal, octal or binary, to
\* NumericLiteral.
C7_AsStated ==
    (op = "LiteralListener" /\ input.rule = "literal") =>
        LET alt == GetChild(input, 0)
        IN  /\ alt.rule = "NullLiteral" => out.ok /\ out.val.cls = "NullLiteral"
            /\ alt.rule = "BooleanLiteral" =>
                   /\ out.ok
                   /\ out.val.cls = "BooleanLiteral"
                   /\ out.val.value = PyBool(alt.text = <<"t", "r", "u", "e">>)
            /\ alt.rule = "StringLiteral" =>
                   /\ out.ok
                   /\ out.val.cls = "StringLiteral"
                   /\ out.val.value = PyStr(SubSeq(alt.text, 2, Len(alt.text) - 1))
            /\ alt.rule = "numericLiteral" => out.ok /\ out.val.cls = "NumericLiteral"

\* list holds one entry per array element of the element list, in order: the
\* expression built from the element, in a SpreadElement exactly when the
\* element has the spread token.
EntryOfEach(elementList, list) ==
    LET elems == GetRules(elementList, {"arrayElement"})
    IN  /\ Len(list) = Len(elems)
        /\ \A i \in 1..Len(elems) :
               LET built == BuiltExpression(GetRule(elems[i], SingleExpressionRules, 0)).val
               IN  IF ~IsNone(GetToken(elems[i], "Ellipsis"))
                   THEN list[i].cls = "SpreadElement" /\ list[i].argument = built
                   ELSE list[i] = built /\ built.cls # "SpreadElement"

\* Every element of the element list builds.
EveryElementBuilds(elementList) ==
    \A e \in { GetRules(elementList, {"arrayElement"})[i] :
                 i \in 1..Len(GetRules(elementList, {"arrayElement"})) } :
        BuiltExpression(GetRule(e, SingleExpressionRules, 0)).ok

\* C8: array literal expansion gives a list with exactly one entry per array
\* element, in source order, the i-th the expression built from the i-th
\* element, wrapped in a SpreadElement exactly when the element has "...".
C8_ArrayExpansion ==
    /\ (op = "ArrayLiteralExpandListener") =>
           IF EveryElementBuilds(GetRule(input, {"elementList"}, 0))
           THEN out.ok /\ EntryOfEach(GetRule(input, {"elementList"}, 0), out.val)
           ELSE ~out.ok
    /\ (op = "ExpressionListener" /\ input.rule = "ArrayLiteralExpression" /\ out.ok) =>
           /\ out.val.cls = "ArrayExpression"
           /\ EntryOfEach(GetRule(GetChild(input, 0), {"elementList"}, 0), out.val.elements)

\* [1, ...a] was expanded: a number, then a spread of a name.
C8_Witness ==
    /\ op = "ArrayLiteralExpandListener"
    /\ out.ok
    /\ Len(out.val) = 2
    /\ out.val[1].cls = "NumericLiteral"
    /\ out.val[2].cls = "SpreadElement"
    /\ out.val[2].argument.cls = "Identifier"

\* C9: the Assignable builder maps a bare name to an Identifier of the name
\* text, an array target to an ArrayPattern whose elements are those of the
\* array-literal expansion, in order (none when the target has no element
\* list), and an object-literal target to UnsupportedFeature("ObjectLiteral
\* assignment").
C9_Assignable ==
    (op = "AssignableListener") =>
        LET target == GetChild(input, 0)
            elementList == GetRule(target, {"elementList"}, 0)
            expansion == ReadAttr(ArrayLiteralExpandListener(elementList), "_exprs")
        IN  CASE target.rule = "identifier" ->
                   /\ out.ok
                   /\ out.val.cls = "Identifier"
                   /\ out.val.name = PyStr(GetText(target))
              [] target.rule = "arrayLiteral" /\ IsNone(elementList) ->
                   out.ok /\ out.val.cls = "ArrayPattern" /\ out.val.elements = <<>>
              [] target.rule = "arrayLiteral" /\ ~IsNone(elementList) ->
                   IF expansion.ok
                   THEN /\ out.ok
                        /\ out.val.cls = "ArrayPattern"
                        /\ out.val.elements = expansion.val
                   ELSE ~out.ok
              [] target.rule = "objectLiteral" ->
                   out = Raise("NotImplementedError", "ObjectLiteral assignment")

\* The target [a, ...1] was built into an ArrayPattern of two elements.
C9_Witness ==
    /\ op = "AssignableListener"
    /\ GetChild(input, 0).rule = "arrayLiteral"
    /\ out.ok
    /\ out.val.cls = "ArrayPattern"
    /\ Len(out.val.elements) = 2
    /\ out.val.elements[1].cls = "Identifier"
    /\ out.val.elements[2].cls = "SpreadElement"

\* The productions C10 lists.
UnbuiltProductions ==
    { "FunctionExpression", "ClassExpression", "MemberDotExpression",
      "MemberIndexExpression", "ArgumentsExpression", "NewExpression",
      "TernaryExpression", "TemplateStringExpression", "MetaExpression",
      "ImportExpression", "BitAndExpression", "BitOrExpression",
      "BitXOrExpression", "LogicalAndExpression", "LogicalOrExpression",
      "CoalesceExpression" }

\* C10 as stated: a function, class, member-dot, member-index, call, new,
\* ternary, template-string, meta, import, bitwise and/or/xor, logical and/or
\* or coalesce production makes the Expression builder fail with
\* UnsupportedFeature naming the production: never a silent finish without a
\* result, never another kind of error.
C10_AsStated ==
    (op = "ExpressionListener" /\ input.rule \in UnbuiltProductions) =>
        out = Raise("NotImplementedError", input.rule)

(***************************************************************************)
(* Source locations.  InvalidPosition of the specification is the          *)
(* ValueError of Position.                                                 *)
(***************************************************************************)
RECURSIVE Tokens(_)
RECURSIVE TokensKids(_)
\* The tokens of a parse tree, in source order.
Tokens(t) == IF t.term THEN <<t>> ELSE TokensKids(t.kids)
TokensKids(ks) ==
    IF ks = <<>> THEN <<>> ELSE Tokens(Head(ks)) \o TokensKids(Tail(ks))

\* Another token of tree follows tok on its line: tok does not end at a line
\* break.
FollowedOnLine(tok, tree) ==
    \E i \in 1..Len(Tokens(tree)) :
        Tokens(tree)[i].line = tok.line /\ Tokens(tree)[i].col > tok.col

\* loc starts at the first token of ctx and ends at its last token with the
\* column incremented by one, the increment left out at most when the last
\* token is not followed by a token on its line.
LocByTokens(loc, ctx, tree) ==
    /\ loc.start.line = StartTok(ctx).line
    /\ loc.start.column = StartTok(ctx).col
    /\ loc.end.line = StopTok(ctx).line
    /\ loc.end.column \in {StopTok(ctx).col, StopTok(ctx).col + 1}
    /\ FollowedOnLine(StopTok(ctx), tree) => loc.end.column = StopTok(ctx).col + 1

\* loc ends one past the last character of the last token of ctx.
LocEndExclusive(loc, ctx) ==
    /\ loc.end.line = StopTok(ctx).line
    /\ loc.end.column = StopTok(ctx).col + Len(StopTok(ctx).text)

\* An expression of two operands was built from the input of the Expression
\* builder.
TwoOperandsBuilt ==
    /\ op = "ExpressionListener"
    /\ out.ok
    /\ out.set
    /\ out.val.type \in {"BinaryExpression", "AssignmentExpression"}

\* C11 as stated: the loc of every node built from a production starts at
\* the production's first token and ends at its last token with the column
\* incremented by one, the increment omitted only when the last token ends
\* exactly at a line break (here: the node of a two-operand expression and
\* the nodes of its operands).
C11_AsStated ==
    TwoOperandsBuilt =>
        /\ LocByTokens(out.val.loc, input, input)
        /\ LocByTokens(out.val.left.loc, GetRule(input, SingleExpressionRules, 0), input)
        /\ LocByTokens(out.val.right.loc, GetRule(input, SingleExpressionRules, 1), input)

\* C12 as stated: the loc.end of every node built from a production is one
\* past the last character of its region: (l, c + n) for a last token of n
\* characters at column c of line l (here: the node of a two-operand
\* expression and the nodes of its operands).
C12_AsStated ==
    TwoOperandsBuilt =>
        /\ LocEndExclusive(out.val.loc, input)
        /\ LocEndExclusive(out.val.left.loc, GetRule(input, SingleExpressionRules, 0))
        /\ LocEndExclusive(out.val.right.loc, GetRule(input, SingleExpressionRules, 1))

\* C13: Position(line, column) fails with InvalidPosition exactly when
\* line < 1 or column < 0; otherwise the Position holds the line and the
\* column it was given.
C13_PositionValid ==
    (op = "Position") =>
        IF args[1] < 1 \/ args[2] < 0
        THEN ~out.ok /\ out.exc = "ValueError"
        ELSE /\ out.ok
             /\ out.val.line = args[1]
             /\ out.val.column = args[2]

\* Position(0, 0) was refused.
C13_Witness ==
    /\ op = "Position"
    /\ args = <<0, 0>>
    /\ ~out.ok
    /\ out.exc = "ValueError"

(***************************************************************************)
(* Builds and results.  MissingResult of the specification is the          *)
(* ValueError of program_node.                                             *)
(***************************************************************************)
\* C15: in a sequence of from_parse_tree calls the outcome of a call depends
\* on its tree alone: it is the outcome of every earlier call, successful or
\* failed, on an equal tree, and the Program of a successful call is made of
\* the statements of its own tree, one per source element, whatever was
\* built before.
C15_BuildsIndependent ==
    (op = "from_parse_tree" /\ builds # <<>>) =>
        /\ \A i \in 1..Len(builds) : builds[i].tree = input => builds[i].out = out
        /\ out.ok => ProgramOf(input, "script", out.val)

\* A tree was built a second time after a failed build and a successful
\* one, into a Program with a statement.
C15_Witness ==
    /\ op = "from_parse_tree"
    /\ Len(builds) = 3
    /\ ~builds[1].out.ok
    /\ builds[2].out.ok
    /\ builds[2].tree = input
    /\ out.ok
    /\ out.val.body # <<>>

\* C16 as stated: reading program_node of an ASTListener that has walked no
\* tree fails with MissingResult, however the listener was constructed.
C16_AsStated ==
    (op = "program_node" /\ astl.walked = <<>>) =>
        out = Raise("ValueError", "Program AST node is None, did you run the listener?")

(***************************************************************************)
(* The fields mapping and the rendering.                                   *)
(***************************************************************************)
RECURSIVE DeclaredFields(_)
RECURSIVE DeclaredByBases(_)
\* The fields a class declares, those of its bases first, in the order the
\* declarations list them; type and loc, which Node declares, left out.
DeclaredFields(cls) ==
    IF cls = "Node" THEN <<>>
    ELSE DeclaredByBases(NodeClasses[cls].bases) \o NodeClasses[cls].own
DeclaredByBases(bases) ==
    IF bases = <<>> THEN <<>>
    ELSE DeclaredFields(Head(bases)) \o DeclaredByBases(Tail(bases))

TwoParentClasses ==
    { c \in ConcreteClasses : Len(NodeClasses[c].bases) = 2 }

RECURSIVE NodesOf(_)
\* The nodes of a tree: the node itself and the nodes its fields hold.
NodesOf(v) ==
    IF "py" \in DOMAIN v
    THEN IF v.py = "list"
         THEN UNION { NodesOf(v.items[i]) : i \in 1..Len(v.items) }
         ELSE {}
    ELSE IF v.cls \in {"Position", "SourceLocation"} THEN {}
    ELSE {v} \cup UNION { NodesOf(FieldValue(v, v.keys[i])) : i \in 3..Len(v.keys) }

\* The lines of a text, each without its line break.
Lines(s) ==
    LET text == s
        RECURSIVE From(_)
        From(i) ==
            IF i > Len(text) THEN <<>>
            ELSE LET n == CHOOSE j \in i..Len(text) :
                              text[j] = "\n" /\ \A k \in i..(j - 1) : text[k] # "\n"
                 IN  <<SubSeq(text, i, n - 1)>> \o From(n + 1)
    IN  From(1)

RECURSIVE Depth(_)
\* The nesting level a line is printed at: the glyphs before its label.
Depth(line) ==
    IF Len(line) >= 4 /\ SubSeq(line, 1, 4) \in {Chars["|   "], Chars["+-- "]}
    THEN 1 + Depth(SubSeq(line, 5, Len(line)))
    ELSE 0

\* The label of a child line: what follows the glyphs, up to the colon.
Label(line) ==
    LET rest == SubSeq(line, 4 * Depth(line) + 1, Len(line))
        colons == { i \in 1..Len(rest) : rest[i] = ":" }
    IN  IF colons = {} THEN <<>>
        ELSE SubSeq(rest, 1, CHOOSE i \in colons : \A j \in colons : i <= j)

\* The labels of the lines of text at nesting level d, in their order.
LabelsAt(text, d) ==
    LET at == SelectSeq(Lines(text), LAMBDA l : Depth(l) = d)
    IN  [i \in 1..Len(at) |-> Label(at[i])]

KeyLabels(keys) == [i \in 1..Len(keys) |-> Chars[keys[i]] \o <<":">>]

\* The keys of the fields mapping of a node of each class.
FieldsByClass == [cls \in DOMAIN NodeClasses |-> FieldsOf(cls)]

RECURSIVE KeysInOrder(_)
RECURSIVE KeysOfEach(_)
\* For each line full mode prints for v, in order, the keys of the node the
\* line is the entry of; <<>> where the entry is not a node.
KeysInOrder(v) ==
    LET children == Children(v)
    IN  <<IF "keys" \in DOMAIN v THEN v.keys ELSE <<>>>>
            \o (IF children.set THEN KeysOfEach(children.val) ELSE <<>>)
KeysOfEach(children) ==
    IF children = <<>> THEN <<>>
    ELSE KeysInOrder(Head(children).value) \o KeysOfEach(Tail(children))

RECURSIVE DepthOfEach(_)
\* The nesting level of each line.
DepthOfEach(lines) ==
    IF lines = <<>> THEN <<>>
    ELSE <<Depth(Head(lines))>> \o DepthOfEach(Tail(lines))

RECURSIVE LabelsFrom(_, _, _, _)
\* The labels of the lines at level d from line j on, up to the first line
\* at a level above d.
LabelsFrom(lines, depths, j, d) ==
    IF j > Len(lines) \/ depths[j] < d THEN <<>>
    ELSE (IF depths[j] = d THEN <<Label(lines[j])>> ELSE <<>>)
             \o LabelsFrom(lines, depths, j + 1, d)

\* The labels of the entries printed one level below line i, in their order.
LabelsBelow(lines, depths, i) == LabelsFrom(lines, depths, i + 1, depths[i] + 1)

\* C14: the fields mapping of every node variant, those with two parent
\* kinds included, has type as its first key and loc as its second, each
\* once, then the fields the variant declares in their declaration order;
\* full-mode rendering lists the child labels in that order, for the node
\* rendered and for every node below it.
C14_FieldOrder ==
    /\ op = "fields" =>
           LET keys == out.val
           IN  /\ Len(keys) >= 2
               /\ keys[1] = "type"
               /\ keys[2] = "loc"
               /\ \A i, j \in 1..Len(keys) : keys[i] = keys[j] => i = j
               /\ SubSeq(keys, 3, Len(keys)) = DeclaredFields(args[1])
    /\ (op = "to_ascii_tree" /\ out.ok /\ args[4] = "full") =>
           /\ LabelsAt(out.val.s, args[3] + 1) = KeyLabels(args[1].keys)
           /\ \A n \in NodesOf(args[1]) : n.keys = FieldsByClass[n.cls]
           /\ LET lines == Lines(out.val.s)
                  depths == DepthOfEach(lines)
                  keys == KeysInOrder(args[1])
              IN  /\ Len(keys) = Len(lines)
                  /\ \A i \in 1..Len(lines) :
                         keys[i] # <<>> =>
                             LabelsBelow(lines, depths, i) = KeyLabels(keys[i])

C14_Witness ==
    /\ op = "to_ascii_tree"
    /\ out.ok
    /\ args[4] = "full"
    /\ args[1].cls = "Program"
    /\ LabelsAt(out.val.s, args[3] + 1)
           = KeyLabels(<<"type", "loc", "sourceType", "body">>)
    /\ \E n \in NodesOf(args[1]) :
           /\ n.cls = "Identifier"
           /\ n.cls \in TwoParentClasses
           /\ n.keys = <<"type", "loc", "name">>
    /\ LET lines == Lines(out.val.s)
           depths == DepthOfEach(lines)
       IN  \E i \in 1..Len(lines) :
               /\ depths[i] >= 5
               /\ KeysInOrder(args[1])[i] = <<"type", "loc", "name">>
               /\ LabelsBelow(lines, depths, i) = KeyLabels(<<"type", "loc", "name">>)

(***************************************************************************)
(* Short mode.                                                             *)
(***************************************************************************)
TypeAndLocLabels == { Chars["type"] \o <<":">>, Chars["loc"] \o <<":">> }

RECURSIVE WithoutTypeAndLoc(_, _)
\* The child lines less every entry labelled type or loc, each with the
\* lines nested below it; skip is the level of the entry being left out.
WithoutTypeAndLoc(lines, skip) ==
    IF lines = <<>> THEN <<>>
    ELSE IF skip > 0 /\ Depth(Head(lines)) > skip
    THEN WithoutTypeAndLoc(Tail(lines), skip)
    ELSE IF Label(Head(lines)) \in TypeAndLocLabels
    THEN WithoutTypeAndLoc(Tail(lines), Depth(Head(lines)))
    ELSE <<Head(lines)>> \o WithoutTypeAndLoc(Tail(lines), 0)

RECURSIVE Unlines(_)
\* The text of the lines, each with its line break.
Unlines(lines) ==
    IF lines = <<>> THEN <<>>
    ELSE Head(lines) \o <<"\n">> \o Unlines(Tail(lines))

\* What full mode prints for the arguments of the call in args.
FullText == AsciiTree(args[1], args[2], args[3], "full")

\* C17: short mode prints, at every depth, no entry for type and loc and
\* every other entry exactly as full mode does, in the same order: its
\* output is the full-mode output of the same call less the type and loc
\* entries and what is nested in them.
C17_ShortMode ==
    (op = "to_ascii_tree" /\ out.ok /\ args[4] = "short") =>
        LET full == Lines(FullText)
        IN  out.val.s = Unlines(<<Head(full)>> \o WithoutTypeAndLoc(Tail(full), 0))

C17_Witness ==
    /\ op = "to_ascii_tree"
    /\ out.ok
    /\ args[4] = "short"
    /\ args[1].cls = "Program"
    /\ LET full == Lines(FullText)
           short == Lines(out.val.s)
       IN  /\ \E l \in 1..Len(full) :
                  Depth(full[l]) >= 5 /\ Label(full[l]) \in TypeAndLocLabels
           /\ \E l \in 1..Len(short) : Depth(short[l]) >= 5
           /\ \A l \in 2..Len(short) : Label(short[l]) \notin TypeAndLocLabels

\* The text holds the word somewhere.
Contains(text, word) ==
    \E i \in 1..(Len(text) - Len(word) + 1) :
        SubSeq(text, i, i + Len(word) - 1) = word

\* C18 as stated: the short-mode output never holds the text "type:" or
\* "loc:" anywhere, whatever the strings of the tree are.
C18_AsStated ==
    (op = "to_ascii_tree" /\ out.ok /\ args[4] = "short") =>
        \A w \in TypeAndLocLabels : ~Contains(out.val.s, w)

\* C18 as amended: in the short-mode output no child line is labelled
\* type: or loc:, and the text "type:" or "loc:" is in the output only when
\* it is in the value of a string literal of the tree.
C18_OnlyInStringValues ==
    (op = "to_ascii_tree" /\ out.ok /\ args[4] = "short") =>
        /\ LET short == Lines(out.val.s)
           IN  \A l \in 2..Len(short) : Label(short[l]) \notin TypeAndLocLabels
        /\ \A w \in TypeAndLocLabels :
               Contains(out.val.s, w) =>
                   \E n \in NodesOf(args[1]) :
                       n.cls = "StringLiteral" /\ Contains(n.value.s, w)

C18_Witness ==
    /\ op = "to_ascii_tree"
    /\ out.ok
    /\ args[4] = "short"
    /\ args[1].cls = "StringLiteral"
    /\ Contains(out.val.s, Chars["loc"] \o <<":">>)
    /\ Len(Lines(out.val.s)) = 2

RECURSIVE MovedDown(_)
\* The tree with every loc one line further down and nothing else changed:
\* the tree of the same source after one more line break before it.
MovedDown(v) ==
    IF "py" \in DOMAIN v
    THEN IF v.py = "list"
         THEN PyList([i \in 1..Len(v.items) |-> MovedDown(v.items[i])])
         ELSE v
    ELSE IF v.cls = "Position" THEN [v EXCEPT !.line = @ + 1]
    ELSE IF v.cls = "SourceLocation"
    THEN [v EXCEPT !.start = MovedDown(@), !.end = MovedDown(@)]
    ELSE [k \in DOMAIN v |->
            IF k \in {"cls", "type", "keys", "sourceType"} THEN v[k]
            ELSE IF k \in ListFields
            THEN [i \in 1..Len(v[k]) |-> MovedDown(v[k][i])]
            ELSE MovedDown(v[k])]

\* C19 as stated: two trees that differ in their loc values alone render
\* to the same string in short mode.
C19_AsStated ==
    (op = "to_ascii_tree" /\ out.ok /\ args[4] = "short") =>
        AsciiTree(MovedDown(args[1]), args[2], args[3], "short") = out.val.s

\* The call renders, on its own, the literal built from the token null.
NullAlone ==
    /\ op = "to_ascii_tree"
    /\ out.ok
    /\ input.rule = "literal"
    /\ ~IsNone(GetToken(input, "NullLiteral"))
    /\ args[2] = <<>>
    /\ args[3] = 0

ValueNoneLine == Chars["+-- "] \o Chars["value"] \o <<":", " ">> \o Chars["None"]

\* C20 as stated: a NullLiteral rendered on its own gives the one line
\* "null" and no child lines.
C20_AsStated == NullAlone => out.val.s = Chars["null"] \o <<"\n">>

\* C20 as amended: a NullLiteral rendered on its own gives the line "null"
\* and below it one child entry for each of its fields: in short mode the
\* one line "+-- value: None", in full mode the entries type, loc (with
\* start and end below it) and value.
C20_NullLiteral ==
    NullAlone =>
        /\ Head(Lines(out.val.s)) = Chars["null"]
        /\ args[4] = "short" => Tail(Lines(out.val.s)) = <<ValueNoneLine>>
        /\ args[4] = "full" =>
               /\ LabelsAt(out.val.s, 1) = KeyLabels(<<"type", "loc", "value">>)
               /\ LabelsAt(out.val.s, 2) = KeyLabels(<<"start", "end">>)
               /\ Len(Lines(out.val.s)) = 6
               /\ Lines(out.val.s)[6] = ValueNoneLine

C20_Witness ==
    /\ NullAlone
    /\ args[4] = "short"
    /\ out.val.s = Chars["null"] \o <<"\n">> \o ValueNoneLine \o <<"\n">>

(***************************************************************************)
(* The glyphs and the nesting level.                                       *)
(***************************************************************************)
RECURSIVE Outline(_, _, _, _)
RECURSIVE OutlineOfEach(_, _, _)
\* The entries of a rendering in the order of the tree: the value, then each
\* of its children with all that is below it, before the next child; every
\* entry with its label and its nesting level, a child one level below its
\* parent.
Outline(v, label, n, ast_format) ==
    LET children == Children(v)
    IN  <<[label |-> label, lvl |-> n]>>
            \o (IF children.set
                THEN OutlineOfEach(SelectSeq(children.val,
                                       LAMBDA c : c.name \notin NODE_BLACKLIST(ast_format)),
                                   n + 1, ast_format)
                ELSE <<>>)
OutlineOfEach(children, n, ast_format) ==
    IF children = <<>> THEN <<>>
    ELSE Outline(Head(children).value, Head(children).name \o <<":">>, n, ast_format)
             \o OutlineOfEach(Tail(children), n, ast_format)

StartsWith(line, start) ==
    Len(line) >= Len(start) /\ SubSeq(line, 1, Len(start)) = start

\* The line of an entry: at level n >= 1, n - 1 times "|   ", one "+-- " and
\* the label; at level 0 the label, or the value, with no glyph before it.
LineOfEntry(line, entry) ==
    IF entry.lvl = 0
    THEN StartsWith(line, entry.label) /\ Depth(line) = 0
    ELSE StartsWith(line, Repeat(Chars["|   "], entry.lvl - 1) \o Chars["+-- "]
                              \o entry.label)

\* C21: the line of a value at level n >= 1 starts with n - 1 copies of
\* "|   ", one "+-- " and its label, the line of the root at level 0 has no
\* prefix, and the children of a value at level n are at level n + 1,
\* directly after their parent and before its next sibling.
C21_Glyphs ==
    (op = "to_ascii_tree" /\ out.ok) =>
        LET lines == Lines(out.val.s)
            outline == Outline(args[1], args[2], args[3], args[4])
        IN  /\ Len(lines) = Len(outline)
            /\ \A i \in 1..Len(lines) : LineOfEntry(lines[i], outline[i])

C21_Witness ==
    /\ op = "to_ascii_tree"
    /\ out.ok
    /\ args[3] = 0
    /\ args[1].cls = "Program"
    /\ LET lines == Lines(out.val.s)
       IN  /\ Depth(lines[1]) = 0
           /\ \E i \in 2..(Len(lines) - 1) :
                  /\ StartsWith(lines[i], Repeat(Chars["|   "], 5) \o Chars["+-- "])
                  /\ StartsWith(lines[i + 1], Repeat(Chars["|   "], 1) \o Chars["+-- "])
\* C22: a call with a negative nesting level raises the ValueError "Nesting
\* level can't be below 0" and returns nothing, whatever the value and the
\* mode; a call with a nesting level of 0 or more never raises it, neither
\* for its own line nor for a line nested below it.
C22_NestingLevel ==
    (op = "to_ascii_tree") =>
        IF args[3] < 0
        THEN out = Raise("ValueError", "Nesting level can't be below 0")
        ELSE out.exc # "ValueError"

C22_Witness ==
    /\ op = "to_ascii_tree"
    /\ args[3] < 0
    /\ args[4] = "short"
    /\ args[1].cls = "Program"
    /\ Children(args[1]).set
    /\ ~out.ok
    /\ ~out.set

(***************************************************************************)
(* The operator of the generated expression classes.                       *)
(***************************************************************************)
\* The enumeration of the operator each family of generated classes takes.
OperatorEnumOf(cls) ==
    CASE cls \in DOMAIN UnaryClassOperator -> [enum |-> "UnaryOperator", values |-> UnaryOperatorValue]
      [] cls \in DOMAIN UpdateClassOperator -> [enum |-> "UpdateOperator", values |-> UpdateOperatorValue]
      [] cls \in DOMAIN BinaryClassOperator -> [enum |-> "BinaryOperator", values |-> BinaryOperatorValue]
      [] cls \in AssignmentClasses -> [enum |-> "AssignmentOperator", values |-> AssignmentOperatorValue]
      [] cls \in LogicalClasses -> [enum |-> "LogicalOperator", values |-> LogicalOperatorValue]
OperatorClasses ==
    DOMAIN UnaryClassOperator \cup DOMAIN UpdateClassOperator
        \cup DOMAIN BinaryClassOperator \cup AssignmentClasses \cup LogicalClasses

\* The operator cls gives the node it constructs from the operands xs.
OperatorGiven(cls, xs) == NewNode(cls, PyNone, xs).operator

\* C23: the node a generated expression class constructs has an operator
\* that is a member of the enumeration of its family, the same one whatever
\* the location and the operands it is constructed from; and no other
\* binary class gives its nodes the operator a binary class gives.
C23_FixedOperator ==
    (op = "new" /\ args[1] \in OperatorClasses) =>
        LET operator == out.val.operator
            family == OperatorEnumOf(args[1])
        IN  /\ operator.py = "enum"
            /\ operator.enum = family.enum
            /\ operator.name \in DOMAIN family.values
            /\ operator.value = family.values[operator.name]
            /\ \A xs \in [1..(Len(args) - 2) -> Operands] :
                   OperatorGiven(args[1], xs) = operator
            /\ args[1] \in DOMAIN BinaryClassOperator =>
                   \A other \in DOMAIN BinaryClassOperator \ {args[1]} :
                       OperatorGiven(other, <<args[3], args[4]>>).value # operator.value

C23_Witness ==
    /\ op = "new"
    /\ args[1] = "ModArithmeticExpression"
    /\ args[2] # PyNone
    /\ args[3] # args[4]
    /\ out.val.operator.value = "%"

\* The assignment classes whose nodes get the AssignmentOperator member name.
AssignmentSubtypesOf(name) ==
    { c \in AssignmentClasses :
          OperatorGiven(c, <<Identifier(PyNone, <<"a">>), Identifier(PyNone, <<"b">>)>>)
              = AssignmentOperator(name) }

\* C24: the node ModAssignExpression constructs is an AssignmentExpression
\* with the operator AssignmentOperator.MOD, "%=", and every member of
\* AssignmentOperator is the operator of exactly one assignment class.
C24_AsStated ==
    (op = "new" /\ args[1] \in AssignmentClasses) =>
        /\ out.val.type = "AssignmentExpression"
        /\ args[1] = "ModAssignExpression" =>
               /\ out.val.operator = AssignmentOperator("MOD")
               /\ out.val.operator.value = "%="
        /\ \A name \in DOMAIN AssignmentOperatorValue :
               Cardinality(AssignmentSubtypesOf(name)) = 1

(***************************************************************************)
(* The update and unary productions.                                       *)
(***************************************************************************)
\* What each update and unary production is to build: the node type, the
\* operator token and the prefix flag.
UpdateAndUnaryProductions ==
    [ PostIncrementExpression |-> <<"UpdateExpression", "++", FALSE>>,
      PostDecreaseExpression |-> <<"UpdateExpression", "--", FALSE>>,
      PreIncrementExpression |-> <<"UpdateExpression", "++", TRUE>>,
      PreDecreaseExpression |-> <<"UpdateExpression", "--", TRUE>>,
      DeleteExpression |-> <<"UnaryExpression", "delete", TRUE>>,
      VoidExpression |-> <<"UnaryExpression", "void", TRUE>>,
      TypeofExpression |-> <<"UnaryExpression", "typeof", TRUE>>,
      UnaryPlusExpression |-> <<"UnaryExpression", "+", TRUE>>,
      UnaryMinusExpression |-> <<"UnaryExpression", "-", TRUE>>,
      BitNotExpression |-> <<"UnaryExpression", "~", TRUE>>,
      NotExpression |-> <<"UnaryExpression", "!", TRUE>> ]

\* C25: the expression built from an update or unary production is an
\* UpdateExpression or UnaryExpression with the operator and the prefix flag
\* of that production, and its argument is the node built from the
\* production's operand.
C25_UpdateAndUnary ==
    (op = "ExpressionListener" /\ input.rule \in DOMAIN UpdateAndUnaryProductions
        /\ out.ok) =>
        LET form == UpdateAndUnaryProductions[input.rule]
            operand == BuiltExpression(GetRule(input, SingleExpressionRules, 0))
        IN  /\ out.set
            /\ out.val.type = form[1]
            /\ out.val.operator.value = form[2]
            /\ out.val.operator.enum =
                   (IF form[1] = "UpdateExpression" THEN "UpdateOperator"
                    ELSE "UnaryOperator")
            /\ out.val.prefix = PyBool(form[3])
            /\ operand.ok
            /\ operand.set
            /\ out.val.argument = operand.val

C25_Witness ==
    /\ op = "ExpressionListener"
    /\ input.rule = "PostDecreaseExpression"
    /\ out.ok
    /\ out.val.prefix = PyBool(FALSE)
    /\ out.val.operator.value = "--"
    /\ out.val.argument.type = "Identifier"

(***************************************************************************)
(* Unsupported productions.                                                *)
(***************************************************************************)
\* C26: entering an unsupported production raises NotImplementedError with
\* the name of that production, whatever is nested inside it: an
\* unsupported expression (a parenthesized expression among them) entered
\* with an ExpressionListener, an unsupported statement entered with a
\* StatementListener.
C26_AsStated ==
    /\ (op = "ExpressionListener"
            /\ input.rule \in ExpressionTodo \cup {"ParenthesizedExpression"}) =>
           out = Raise("NotImplementedError", input.rule)
    /\ (op = "StatementListener" /\ input.rule = "statement"
            /\ input.kids[1].rule \in DOMAIN StatementTodo) =>
           out = Raise("NotImplementedError", StatementTodo[input.kids[1].rule])

(***************************************************************************)
(* The traversal flags of the statement builder.                           *)
(***************************************************************************)
\* C27: the statement, or the exception, a StatementListener gives for a
\* parse tree is the one a StatementListener made with the other in_loop, and
\* the one a StatementListener made with the other in_func, gives for it; so
\* the four listeners of a tree, each in a state of its own, give one outcome.
C27_FlagsNotEnforced ==
    (op = "StatementListener") =>
        /\ ReadAttr(StatementListener(input, ~args[1], args[2]), "_stmt") = out
        /\ ReadAttr(StatementListener(input, args[1], ~args[2]), "_stmt") = out

C27_Witness ==
    /\ op = "StatementListener"
    /\ args = <<FALSE, FALSE>>
    /\ input.rule = "statement"
    /\ input.kids[1].rule = "returnStatement"
    /\ out = Raise("NotImplementedError", "ReturnStatement")

(***************************************************************************)
(* One ASTListener walked more than once.                                  *)
(***************************************************************************)
\* C28: program_node read after the walks of one ASTListener returns the
\* Program the most recent walk built, and returns no Program when the most
\* recent walk raised.
C28_AsStated ==
    (op = "program_node" /\ astl.live /\ astl.walked # <<>>) =>
        LET latest == Walk(astl.walked[Len(astl.walked)], astl.source_type)
        IN  /\ (latest.ok /\ latest.set) => out = Ok(latest.val)
            /\ ~latest.ok => ~out.ok

(***************************************************************************)
(* Blocks and programs without a statement list.                           *)
(***************************************************************************)
\* C29: a block whose parse tree has no statementList builds a
\* BlockStatement with an empty body, and a program whose parse tree has no
\* sourceElements builds a Program with an empty body.
C29_AsStated ==
    /\ (op = "StatementListener" /\ input.rule = "statement"
            /\ input.kids[1].rule = "block"
            /\ IsNone(GetRule(input.kids[1], {"statementList"}, 0))) =>
           /\ out.ok
           /\ out.set
           /\ out.val.cls = "BlockStatement"
           /\ out.val.body = <<>>
    /\ (op = "from_parse_tree" /\ input.rule = "program"
            /\ IsNone(GetRule(input, {"sourceElements"}, 0))) =>
           /\ out.ok
           /\ out.set
           /\ out.val.cls = "Program"
           /\ out.val.body = <<>>

(***************************************************************************)
(* The values of the fields mapping.                                       *)
(***************************************************************************)
\* Where the call cls(loc, *xs) of RunNewNode holds, in args, the value
\* received for each field.
ReceivedAt ==
    [ loc |-> 2, argument |-> 3, expression |-> 3, left |-> 3, right |-> 4,
      id |-> 3, init |-> 4, meta |-> 3, property |-> 4 ]

\* C30: every field of a constructed node that the constructor call received
\* a value for holds that value itself; so do meta and property of a
\* MetaProperty.
C30_AsStated ==
    (op = "new") =>
        \A i \in 2..Len(out.val.keys) :
            out.val.keys[i] \in DOMAIN ReceivedAt =>
                out.val[out.val.keys[i]] = args[ReceivedAt[out.val.keys[i]]]

====
